---- MODULE Spec2Model ----
(***************************************************************************)
(* redux-auto-api: the reducers of withReductions (PESS_GET, PESS_POST,    *)
(* OPT_PATCH, OPT_DELETE) and the thunks that dispatch their events        *)
(* (getResources, postResources, patchResources, deleteResources).         *)
(*                                                                         *)
(* JavaScript values: an object is a function from its keys (strings) to   *)
(* values, an array is a sequence, `undefined` as a value is Undefined; a  *)
(* value used as a property name is the string JavaScript makes of it, so  *)
(* that `undefined` names the key "undefined".                             *)
(***************************************************************************)
EXTENDS Integers, Sequences, FiniteSets, TLC

VARIABLES state, variants, reqs, dispatched, fakeIdNum, journal

vars == <<state, variants, reqs, dispatched, fakeIdNum, journal>>

(***************************************************************************)
(* Bounds of the model.                                                    *)
(***************************************************************************)
\* thunks dispatched in one behaviour
MaxCalls == 2
\* events dispatched to the store directly in one behaviour
MaxEvents == 4

(***************************************************************************)
(* Values.                                                                 *)
(***************************************************************************)
Undefined == [jsUndefined |-> TRUE]
Null == [jsNull |-> TRUE]
EmptyObj == [k \in {} |-> "undefined"]

Ids == {"1", "2"}
\* the number an integer-like key stands for (own keys are listed in that order)
KeyNum == [k \in Ids |-> IF k = "1" THEN 1 ELSE 2]
\* the quantity a PATCH call sets
NewQtys == {"9"}

\* a resource as the server holds it
ServerResource(id) == [id |-> id, name |-> "n", qty |-> "5"]

\* a rejection value of a transport, and the error of calling a non-function
\* or reading a property of undefined
NetworkError == [name |-> "NetworkError"]
TypeError == [name |-> "TypeError"]

Truthy(v) == v # Undefined /\ v # Null

\* v === undefined, for a value v of any kind
IsUndefined(v) == ToString(v) = ToString(Undefined)

\* String(v) for a string or undefined: v used as a property name
Key(v) == IF IsUndefined(v) THEN "undefined" ELSE v

\* o[k]: the value of the property, undefined when o has none of that name
Prop(o, k) == IF Key(k) \in DOMAIN o THEN o[Key(k)] ELSE Undefined

\* m[k] for a map m from ids to resources
Lookup(m, k) == IF Key(k) \in DOMAIN m THEN m[Key(k)] ELSE Undefined

\* { ...a } : spreading undefined or null adds no key
Spread(a) == IF Truthy(a) THEN a ELSE EmptyObj

\* { ...a, ...b }
Merge(a, b) ==
  [k \in DOMAIN Spread(a) \cup DOMAIN Spread(b) |->
     IF k \in DOMAIN Spread(b) THEN Spread(b)[k] ELSE Spread(a)[k]]

\* m without the keys in ks (delete m[k])
Without(m, ks) == [k \in DOMAIN m \ ks |-> m[k]]

\* R.fromPairs(R.map(o => [o[idKey], o], objs)): the last object wins a key
FromPairsBy(idKey, objs) ==
  [k \in {Key(Prop(objs[i], idKey)) : i \in DOMAIN objs} |->
     LET last == CHOOSE i \in DOMAIN objs :
                   /\ Key(Prop(objs[i], idKey)) = k
                   /\ \A j \in DOMAIN objs :
                        Key(Prop(objs[j], idKey)) = k => j <= i
     IN objs[last]]

\* R.map(R.prop(idKey), objs)
PropsOf(idKey, objs) == [i \in DOMAIN objs |-> Prop(objs[i], idKey)]

RECURSIVE SortedKeys(_)
\* the integer-like keys of ks in ascending numeric order
SortedKeys(ks) ==
  IF ks = {} THEN << >>
  ELSE LET least == CHOOSE k \in ks : \A o \in ks : KeyNum[k] <= KeyNum[o]
       IN <<least>> \o SortedKeys(ks \ {least})

RECURSIVE FirstOccurrences(_, _)
\* the keys of s that are not in seen, each once, in order of first occurrence
FirstOccurrences(s, seen) ==
  IF s = << >> THEN << >>
  ELSE IF Head(s) \in seen THEN FirstOccurrences(Tail(s), seen)
  ELSE <<Head(s)>> \o FirstOccurrences(Tail(s), seen \cup {Head(s)})

\* R.keys(R.fromPairs(...)): own keys in JavaScript's order, integer-like keys
\* ascending, then the other keys in insertion order
KeysOfFromPairs(idKey, objs) ==
  LET ks == [i \in DOMAIN objs |-> Key(Prop(objs[i], idKey))]
      all == {ks[i] : i \in DOMAIN ks}
  IN SortedKeys(all \cap Ids) \o FirstOccurrences(ks, Ids)

(***************************************************************************)
(* reductions/optimisticPatch                                              *)
(***************************************************************************)
patchStartNoSnapshot(st, action, options) ==
  LET idKey == Prop(options, "idKey")
      patchesMap == FromPairsBy(idKey, action.data)
      hit == DOMAIN st.data \cap DOMAIN patchesMap
  IN [st EXCEPT
        !.data = [id \in DOMAIN st.data |->
                    IF id \in hit THEN Merge(st.data[id], patchesMap[id])
                    ELSE st.data[id]]]
patchStartUpserts(st, action, options) ==
  LET idKey == Prop(options, "idKey")
      patchesMap == FromPairsBy(idKey, action.data)
      hit == DOMAIN st.data \cap DOMAIN patchesMap
      old == st.prePatchResources
  IN [st EXCEPT
        !.data = [id \in DOMAIN st.data \cup DOMAIN patchesMap |->
                    IF id \in DOMAIN patchesMap
                    THEN Merge(Lookup(st.data, id), patchesMap[id])
                    ELSE st.data[id]],
        !.prePatchResources = [id \in DOMAIN old \cup hit |->
                    IF id \in hit THEN st.data[id] ELSE old[id]]]
patchStartReducer(st, action, options) ==
  LET idKey == Prop(options, "idKey")
      patchesMap == FromPairsBy(idKey, action.data)
      hit == DOMAIN st.data \cap DOMAIN patchesMap
      old == st.prePatchResources
  IN [st EXCEPT
        !.data = [id \in DOMAIN st.data |->
                    IF id \in hit THEN Merge(st.data[id], patchesMap[id])
                    ELSE st.data[id]],
        !.prePatchResources = [id \in DOMAIN old \cup hit |->
                    IF id \in hit THEN st.data[id] ELSE old[id]]]

patchSuccessRestores(st, action, options) ==
  LET idKey == Prop(options, "idKey")
      ids == {Key(Prop(action.data[i], idKey)) : i \in DOMAIN action.data}
      old == st.prePatchResources
  IN [st EXCEPT
        !.data = [id \in DOMAIN st.data |->
                    IF id \in ids \cap DOMAIN old THEN old[id] ELSE st.data[id]],
        !.prePatchResources = Without(old, ids)]
patchSuccessDropsUnknown(st, action, options) ==
  LET idKey == Prop(options, "idKey")
      ids == {Key(Prop(action.data[i], idKey)) : i \in DOMAIN action.data}
  IN [st EXCEPT !.data = Without(st.data, ids \ DOMAIN st.prePatchResources),
                !.prePatchResources = Without(st.prePatchResources, ids)]
patchSuccessClearsAll(st, action, options) ==
  [st EXCEPT !.prePatchResources = EmptyObj]
patchSuccessReducer(st, action, options) ==
  LET idKey == Prop(options, "idKey")
      ids == {Key(Prop(action.data[i], idKey)) : i \in DOMAIN action.data}
  IN [st EXCEPT !.prePatchResources = Without(st.prePatchResources, ids)]

patchFailKeepsPatched(st, action, options) ==
  LET idKey == Prop(options, "idKey")
      patchesMap == FromPairsBy(idKey, action.data)
      hit == DOMAIN st.data \cap DOMAIN patchesMap
  IN [st EXCEPT !.prePatchResources = Without(st.prePatchResources, hit)]
patchFailChecksSnapshot(st, action, options) ==
  LET idKey == Prop(options, "idKey")
      patchesMap == FromPairsBy(idKey, action.data)
      old == st.prePatchResources
      hit == DOMAIN st.data \cap DOMAIN patchesMap \cap DOMAIN old
  IN [st EXCEPT
        !.data = [id \in DOMAIN st.data |->
                    IF id \in hit THEN old[id] ELSE st.data[id]],
        !.prePatchResources = Without(old, DOMAIN patchesMap)]
patchFailReducer(st, action, options) ==
  LET idKey == Prop(options, "idKey")
      patchesMap == FromPairsBy(idKey, action.data)
      hit == DOMAIN st.data \cap DOMAIN patchesMap
      old == st.prePatchResources
  IN [st EXCEPT
        !.data = [id \in DOMAIN st.data |->
                    IF id \in hit THEN Lookup(old, id) ELSE st.data[id]],
        !.prePatchResources = Without(old, hit)]

(***************************************************************************)
(* reductions/pessimisticGet                                               *)
(***************************************************************************)
getStartKeepsOrder(st) ==
  [st EXCEPT !.data = EmptyObj,
             !.getFailed = FALSE,
             !.getSucceeded = FALSE,
             !.numGetsInProgress = st.numGetsInProgress + 1]
getStartReducer(st) ==
  [st EXCEPT !.data = EmptyObj,
             !.getFailed = FALSE,
             !.getSucceeded = FALSE,
             !.order = << >>,
             !.numGetsInProgress = st.numGetsInProgress + 1]

getSuccessMerges(st, action, options) ==
  LET idKey == Prop(options, "idKey")
  IN [st EXCEPT !.data = Merge(st.data, FromPairsBy(idKey, action.data)),
                !.getSucceeded = TRUE,
                !.numGetsInProgress = st.numGetsInProgress - 1,
                !.order = PropsOf(idKey, action.data)]

getSuccessKeepsFirst(st, action, options) ==
  LET idKey == Prop(options, "idKey")
  IN [st EXCEPT
        !.data = IF st.getSucceeded THEN st.data
                 ELSE FromPairsBy(idKey, action.data),
        !.getSucceeded = TRUE,
        !.numGetsInProgress = st.numGetsInProgress - 1,
        !.order = IF st.getSucceeded THEN st.order
                  ELSE PropsOf(idKey, action.data)]

getSuccessReducer(st, action, options) ==
  LET idKey == Prop(options, "idKey")
  IN [st EXCEPT !.data = FromPairsBy(idKey, action.data),
                !.getSucceeded = TRUE,
                !.numGetsInProgress = st.numGetsInProgress - 1,
                !.order = PropsOf(idKey, action.data)]

getFailReducer(st) ==
  [st EXCEPT !.getFailed = TRUE,
             !.numGetsInProgress = st.numGetsInProgress - 1]

(***************************************************************************)
(* reductions/optimisticDelete                                             *)
(***************************************************************************)
deleteStartOverwrites(st, action, options) ==
  LET idKey == Prop(options, "idKey")
      deletesMap == FromPairsBy(idKey, action.data)
      old == st.preDeleteResources
  IN [st EXCEPT
        !.data = Without(st.data, DOMAIN deletesMap),
        !.preDeleteResources = [id \in DOMAIN old \cup DOMAIN deletesMap |->
             IF id \in DOMAIN deletesMap THEN Lookup(st.data, id) ELSE old[id]]]
\* action.data is an array in every event the thunks dispatch
deleteStartReducer(st, action, options) ==
  LET idKey == Prop(options, "idKey")
      deletesMap == FromPairsBy(idKey, action.data)
      hit == DOMAIN st.data \cap DOMAIN deletesMap
      old == st.preDeleteResources
  IN [st EXCEPT
        !.data = Without(st.data, hit),
        !.preDeleteResources = [id \in DOMAIN old \cup hit |->
             IF id \in hit
             THEN (IF Truthy(st.data[id]) THEN st.data[id] ELSE Lookup(old, id))
             ELSE old[id]]]

deleteSuccessPrunes(st, action, options) ==
  LET idKey == Prop(options, "idKey")
      ids == {Key(Prop(action.data[i], idKey)) : i \in DOMAIN action.data}
      Kept(id) == Key(id) \notin ids
  IN [st EXCEPT !.preDeleteResources = Without(st.preDeleteResources, ids),
                !.order = SelectSeq(st.order, Kept)]

deleteSuccessReducer(st, action, options) ==
  LET idKey == Prop(options, "idKey")
      ids == {Key(Prop(action.data[i], idKey)) : i \in DOMAIN action.data}
  IN [st EXCEPT !.preDeleteResources = Without(st.preDeleteResources, ids)]

deleteFailForgets(st, action, options) ==
  deleteSuccessReducer(st, action, options)
deleteFailRestoresAll(st, action, options) ==
  LET old == st.preDeleteResources
      live == {id \in DOMAIN old : Truthy(old[id])}
  IN [st EXCEPT
        !.data = [id \in DOMAIN st.data \cup live |->
                    IF id \in live THEN old[id] ELSE st.data[id]],
        !.preDeleteResources = EmptyObj]
deleteFailWritesSnapshot(st, action, options) ==
  LET idKey == Prop(options, "idKey")
      deletesMap == FromPairsBy(idKey, action.data)
      old == st.preDeleteResources
  IN [st EXCEPT
        !.data = [id \in DOMAIN st.data \cup DOMAIN deletesMap |->
                    IF id \in DOMAIN deletesMap THEN Lookup(old, id) ELSE st.data[id]],
        !.preDeleteResources = Without(old, DOMAIN deletesMap)]
deleteFailReducer(st, action, options) ==
  LET idKey == Prop(options, "idKey")
      deletesMap == FromPairsBy(idKey, action.data)
      old == st.preDeleteResources
      live == {id \in DOMAIN old : Truthy(old[id])}
      restore == live \cap DOMAIN deletesMap
  IN [st EXCEPT
        !.data = [id \in DOMAIN st.data \cup restore |->
                    IF id \in restore THEN old[id] ELSE st.data[id]],
        !.preDeleteResources = [id \in live \ restore |-> old[id]]]

(***************************************************************************)
(* reductions/pessimisticPost                                              *)
(***************************************************************************)
postStartReducer(st) == [st EXCEPT !.numPosting = st.numPosting + 1]

postSuccessPrepends(st, action, options) ==
  LET idKey == Prop(options, "idKey")
      newData == FromPairsBy(idKey, action.data)
  IN [st EXCEPT
        !.data = [id \in DOMAIN st.data \cup DOMAIN newData |->
                    IF id \in DOMAIN newData THEN newData[id] ELSE st.data[id]],
        !.numPosting = st.numPosting - 1,
        !.order = KeysOfFromPairs(idKey, action.data) \o st.order]

postSuccessReducer(st, action, options) ==
  LET idKey == Prop(options, "idKey")
      newData == FromPairsBy(idKey, action.data)
  IN [st EXCEPT
        !.data = [id \in DOMAIN st.data \cup DOMAIN newData |->
                    IF id \in DOMAIN newData THEN newData[id] ELSE st.data[id]],
        !.numPosting = st.numPosting - 1,
        !.order = st.order \o KeysOfFromPairs(idKey, action.data)]

postFailResetsOrder(st) ==
  [st EXCEPT !.numPosting = st.numPosting - 1, !.order = << >>]
postFailReducer(st) == [st EXCEPT !.numPosting = st.numPosting - 1]

(***************************************************************************)
(* utils.flattenFuncMap and withReductions                                 *)
(***************************************************************************)
\* the action names of PESS_GET_ALL, PESS_POST_ALL, OPT_PATCH_ALL, OPT_DELETE_ALL
OperationReducers ==
  {"PESS_GET_START", "PESS_GET_SUCCESS", "PESS_GET_FAIL",
   "PESS_POST_START", "PESS_POST_SUCCESS", "PESS_POST_FAIL",
   "OPT_PATCH_START", "OPT_PATCH_SUCCESS", "OPT_PATCH_FAIL",
   "OPT_DELETE_START", "OPT_DELETE_SUCCESS", "OPT_DELETE_FAIL"}

\* the flat map from action type to the name of the reducer function
flattenFuncMap(names, prefix) ==
  [t \in {prefix \o n : n \in names} |-> CHOOSE n \in names : prefix \o n = t]

\* reducerFunc(state, action, options) for the reducer function named name
ApplyReducer(name, st, action, options) ==
  CASE name = "PESS_GET_START" -> getStartReducer(st)
    [] name = "PESS_GET_SUCCESS" -> getSuccessReducer(st, action, options)
    [] name = "PESS_GET_FAIL" -> getFailReducer(st)
    [] name = "PESS_POST_START" -> postStartReducer(st)
    [] name = "PESS_POST_SUCCESS" -> postSuccessReducer(st, action, options)
    [] name = "PESS_POST_FAIL" -> postFailReducer(st)
    [] name = "OPT_PATCH_START" -> patchStartReducer(st, action, options)
    [] name = "OPT_PATCH_SUCCESS" -> patchSuccessReducer(st, action, options)
    [] name = "OPT_PATCH_FAIL" -> patchFailReducer(st, action, options)
    [] name = "OPT_DELETE_START" -> deleteStartReducer(st, action, options)
    [] name = "OPT_DELETE_SUCCESS" -> deleteSuccessReducer(st, action, options)
    [] name = "OPT_DELETE_FAIL" -> deleteFailReducer(st, action, options)

\* the namespace the thunks are generated with, and the namespace and options
\* the store's slice reducer is built with: withReductions prepends its
\* namespace to the action names as it is, so it is given with the separator
Namespace == "products"
ReducerNamespace == "products/"
ReducerOptions == [idKey |-> "id"]

DefaultState ==
  [data |-> EmptyObj,
   numGetsInProgress |-> 0,
   getSucceeded |-> FALSE,
   getFailed |-> FALSE,
   numPosting |-> 0,
   order |-> << >>,
   preDeleteResources |-> EmptyObj,
   prePatchResources |-> EmptyObj]

\* withReductions flattens its reducers once, when the slice reducer is built
reducerFuncMap == flattenFuncMap(OperationReducers, ReducerNamespace)

\* A base reducer of the caller's, `(state = initialState, action) => ...`:
\* its slice starts with a numPosting of its own and a field seen, in which
\* it notes the numPosting it is given with a PESS_POST_START
UserInitialState == [numPosting |-> 3, seen |-> 0]

userReducer(st, action) ==
  LET s == IF st = Undefined THEN UserInitialState ELSE st
  IN IF action.type = ReducerNamespace \o "PESS_POST_START"
     THEN [k \in DOMAIN s \cup {"seen"} |->
             IF k = "seen" THEN s.numPosting ELSE s[k]]
     ELSE s

\* baseReducer(state, action) for the base reducer named name; R.identity
\* returns its first argument
ApplyBase(name, st, action) ==
  IF name = "identity" THEN st ELSE userReducer(st, action)

withReductionsReducesFirst(funcMap, options, baseReducer, st, action) ==
  LET baseInitialState == ApplyBase(baseReducer, Undefined, action)
      prior == IF ~Truthy(st) THEN Merge(DefaultState, baseInitialState) ELSE st
      autoReducedState ==
        IF action.type \in DOMAIN funcMap
        THEN ApplyReducer(funcMap[action.type], prior, action, options)
        ELSE prior
  IN IF ~Truthy(st) THEN autoReducedState
     ELSE ApplyBase(baseReducer, autoReducedState, action)

withReductionsBaseFirst(funcMap, options, baseReducer, st, action) ==
  LET baseInitialState == ApplyBase(baseReducer, Undefined, action)
  IN IF ~Truthy(st) THEN Merge(DefaultState, baseInitialState)
     ELSE LET based == ApplyBase(baseReducer, st, action)
          IN IF action.type \in DOMAIN funcMap
             THEN ApplyReducer(funcMap[action.type], based, action, options)
             ELSE based

\* the reducer withReductions(namespace, operationReducers, options)(baseReducer)
\* returns, for the flat map of its namespace
withReductions(funcMap, options, baseReducer, st, action) ==
  LET baseInitialState == ApplyBase(baseReducer, Undefined, action)
  IN IF ~Truthy(st) THEN Merge(DefaultState, baseInitialState)
     ELSE LET autoReducedState ==
                IF action.type \in DOMAIN funcMap
                THEN ApplyReducer(funcMap[action.type], st, action, options)
                ELSE st
          IN ApplyBase(baseReducer, autoReducedState, action)

\* the slice reducer of the store: withReductions(...)(), the base reducer
\* defaults to the identity
reducer(st, action) ==
  withReductions(reducerFuncMap, ReducerOptions, "identity", st, action)

RECURSIVE dispatchAll(_, _)
\* the slice after the events are dispatched to the store one after the other
dispatchAll(st, events) ==
  IF events = << >> THEN st
  ELSE dispatchAll(reducer(st, Head(events)), Tail(events))

\* Slice reducers built with other arguments of withReductions, which are
\* given the same events (variants holds their slices):
\*   sameNamespace   the namespace the thunks are given, as it is
\*   noOptions       no options argument (options = {})
\*   withBase        a base reducer of the caller's (where events are
\*                   dispatched to the store directly)
sameNamespaceFuncMap == flattenFuncMap(OperationReducers, Namespace)
NoOptions == EmptyObj

reducerSameNamespace(st, action) ==
  withReductions(sameNamespaceFuncMap, ReducerOptions, "identity", st, action)

reducerNoOptions(st, action) ==
  withReductions(reducerFuncMap, NoOptions, "identity", st, action)

reducerWithBase(st, action) ==
  withReductions(reducerFuncMap, ReducerOptions, "userReducer", st, action)

RECURSIVE dispatchAllVariants(_, _)
dispatchAllVariants(vs, events) ==
  IF events = << >> THEN vs
  ELSE dispatchAllVariants(
         [sameNamespace |-> reducerSameNamespace(vs.sameNamespace, Head(events)),
          noOptions |-> reducerNoOptions(vs.noOptions, Head(events))],
         Tail(events))

(***************************************************************************)
(* The thunks.  A request is one iteration of a thunk's forEach: it        *)
(* dispatches START, calls the transport and, when the transport settles,  *)
(* runs to its end in one turn of the event loop.                          *)
(*   op, opts, data, requestData   as in the thunk                         *)
(*   settled   the transport has resolved or rejected and the request has  *)
(*             run to its end; once a request has dispatched a terminal    *)
(*             event only its op and phases are kept                       *)
(*   phases    the phases of the events dispatched for the request so far  *)
(*   pre       the entries of state.data under the request's ids just      *)
(*             before START (history)                                      *)
(*   intact    no event of another request has changed the slice under     *)
(*             the request's ids since START (history)                     *)
(*   call      the thunk call that made the request, named by the index of *)
(*             the call's first request                                    *)
(* The caller keeps the documented precondition of the PATCH and DELETE    *)
(* reducers: it starts no PATCH or DELETE for an id while another one is   *)
(* in flight for that id.                                                  *)
(* dispatched holds the last turn: the request and its record before the   *)
(* turn, how the turn began, the slice before the turn, the translator's   *)
(* answer, the events                                                      *)
(* dispatched in order with their phases, and the callback options whose   *)
(* functions the turn called, in order.                                    *)
(***************************************************************************)
\* function-valued options
FunctionValues ==
  {"noop", "userFunc", "partition", "oneRequest", "onePerTarget",
   "defaultPatchResponsesToData", "defaultPatchTargetsToRequestDataArray",
   "defaultPatchRequestDataToDataArray",
   "defaultPostRequestDataToDataArray", "defaultPostResponsesToData",
   "defaultPostResourcesToRequestDataArray", "newResourceCombiner",
   "defaultDeleteRequestDataToDataArray", "defaultDeleteTargetsToRequestDataArray"}
IsFunction(v) == ~IsUndefined(v) /\ v \in FunctionValues

\* `${namespace}${separator}${optimistic ? 'OPT' : 'PESS'}_${op}_${phase}`
ActionType(namespace, separator, optimistic, op, phase) ==
  namespace \o separator \o (IF optimistic THEN "OPT" ELSE "PESS")
    \o "_" \o op \o "_" \o phase

\* the ids a request's data names
IdsOf(r) == {Key(Prop(r.data[i], "id")) : i \in DOMAIN r.data}

InFlight(r) == r.phases # << >> /\ ~r.settled

\* a PATCH or DELETE request for id is in flight
Busy(id) ==
  \E j \in DOMAIN reqs :
    reqs[j].op \in {"PATCH", "DELETE"} /\ InFlight(reqs[j]) /\ id \in IdsOf(reqs[j])

\* the slice holds the same under id in both states
SameUnder(a, b, id) ==
  /\ (id \in DOMAIN a.data) = (id \in DOMAIN b.data)
  /\ Lookup(a.data, id) = Lookup(b.data, id)
  /\ (id \in DOMAIN a.prePatchResources) = (id \in DOMAIN b.prePatchResources)
  /\ Lookup(a.prePatchResources, id) = Lookup(b.prePatchResources, id)
  /\ (id \in DOMAIN a.preDeleteResources) = (id \in DOMAIN b.preDeleteResources)
  /\ Lookup(a.preDeleteResources, id) = Lookup(b.preDeleteResources, id)

\* what is kept of a request once it has dispatched a terminal event
Retired(r) ==
  [op |-> r.op, opts |-> EmptyObj, data |-> << >>, requestData |-> << >>,
   settled |-> TRUE, phases |-> r.phases, pre |-> EmptyObj, intact |-> TRUE,
   call |-> r.call]

\* One turn of request i, whose record before the turn is rec (with the
\* request list rs).  how is "call" for the turn that starts the request,
\* "resolved" or "rejected" for the turn its transport's settling starts;
\* answer is what the response translator returned, if it was called and
\* returned a classification; the events, of the given phases, are dispatched
\* in order
Turn(rs, i, rec, how, answer, events, phases, callbacks) ==
  LET after == dispatchAll(state, events)
      now == [rec EXCEPT !.phases = @ \o phases, !.settled = (how # "call")]
  IN /\ reqs' = [j \in DOMAIN rs |->
                   IF j = i
                   THEN (IF how # "call" /\ phases # << >> THEN Retired(now) ELSE now)
                   ELSE IF InFlight(rs[j])
                   THEN [rs[j] EXCEPT !.intact =
                           @ /\ \A id \in IdsOf(rs[j]) : SameUnder(state, after, id)]
                   ELSE rs[j]]
     /\ state' = after
     /\ variants' = dispatchAllVariants(variants, events)
     /\ journal' = journal
     /\ dispatched' = [req |-> i, rec |-> rec, how |-> how, answer |-> answer,
                       before |-> state,
                       events |-> events, phases |-> phases,
                       callbacks |-> callbacks]

NewRequest(op, opts, data, requestData) ==
  [op |-> op, opts |-> opts, data |-> data, requestData |-> requestData,
   settled |-> FALSE, phases |-> << >>,
   pre |-> [id \in {Key(Prop(data[i], "id")) : i \in DOMAIN data} \cap DOMAIN state.data
              |-> state.data[id]],
   intact |-> TRUE,
   call |-> Len(reqs) + 1]

Pending(i) == i \in DOMAIN reqs /\ ~reqs[i].settled

\* `throw new Error(...)` before the targets are translated and anything is
\* dispatched: the thunk's promise is rejected and no request is made
Throws(rec) ==
  /\ state' = state
  /\ variants' = variants
  /\ reqs' = reqs
  /\ journal' = journal
  /\ dispatched' = [req |-> 0, rec |-> rec, how |-> "threw", answer |-> EmptyObj,
                    before |-> state, events |-> << >>, phases |-> << >>,
                    callbacks |-> << >>]

(***************************************************************************)
(* actions/getResources                                                    *)
(***************************************************************************)
defaultOptionsGet == [debug |-> FALSE, handleGetSuccess |-> "noop"]

\* the options a caller gives getResources
GetOptions ==
  {[getFunc |-> "userFunc"],
   [getFunc |-> "userFunc", handleGetSuccess |-> "userFunc",
    namespaceSeparator |-> ":"],
   [handleGetSuccess |-> "userFunc"]}

Params == [q |-> "all"]

\* what the API answers a GET with
GetPayloads ==
  {<<ServerResource("1")>>,
   <<ServerResource("2"), ServerResource("1")>>}

\* computedOptions: the options and their GET group; defaultOptions is not
\* merged in
getComputedOptions(options) == options

getResourcesStartsFirst(options) ==
  LET computedOptions == getComputedOptions(options)
      i == Len(reqs) + 1
      rec == NewRequest("GET", computedOptions, << >>, [params |-> Params])
  IN /\ Len(reqs) < MaxCalls
     /\ Turn(Append(reqs, rec), i, rec, "call", EmptyObj,
             <<[params |-> Params,
                type |-> ActionType(Namespace, "/", FALSE, "GET", "START")]>>,
             <<"START">>, << >>)
\* the thunk up to `await getFunc(endpoint, { params })`
getResources(options) ==
  LET computedOptions == getComputedOptions(options)
      i == Len(reqs) + 1
      rec == NewRequest("GET", computedOptions, << >>, [params |-> Params])
  IN /\ Len(reqs) < MaxCalls
     /\ IF ~IsFunction(Prop(computedOptions, "getFunc"))
        THEN Throws(rec)
        ELSE Turn(Append(reqs, rec), i, rec, "call", EmptyObj,
                  <<[params |-> Params,
                     type |-> ActionType(Namespace, "/", FALSE, "GET", "START")]>>,
                  <<"START">>, << >>)

\* getFunc resolves with response: SUCCESS, then handleGetSuccess is called;
\* a throw inside the try block is caught and dispatches FAIL
getFuncResolves(i, payload) ==
  LET r == reqs[i]
      success == [type |-> ActionType(Namespace, "/", FALSE, "GET", "SUCCESS"),
                  data |-> payload, params |-> Params]
      fail == [type |-> ActionType(Namespace, "/", FALSE, "GET", "FAIL"),
               error |-> TypeError, params |-> Params]
  IN /\ Pending(i) /\ r.op = "GET"
     /\ Turn(reqs, i, r, "resolved", EmptyObj,
             IF IsFunction(Prop(r.opts, "handleGetSuccess"))
             THEN <<success>> ELSE <<success, fail>>,
             IF IsFunction(Prop(r.opts, "handleGetSuccess"))
             THEN <<"SUCCESS">> ELSE <<"SUCCESS", "FAIL">>,
             IF IsFunction(Prop(r.opts, "handleGetSuccess"))
             THEN <<"handleGetSuccess">> ELSE << >>)

\* getFunc rejects with error
getFuncRejects(i, error) ==
  LET r == reqs[i]
  IN /\ Pending(i) /\ r.op = "GET"
     /\ Turn(reqs, i, r, "rejected", EmptyObj,
             <<[type |-> ActionType(Namespace, "/", FALSE, "GET", "FAIL"),
                error |-> error, params |-> Params]>>, <<"FAIL">>, << >>)

(***************************************************************************)
(* What the caller passes to the PATCH and DELETE thunks, and what the     *)
(* response translators can answer.                                        *)
(***************************************************************************)
\* the ids of the resources a PATCH or DELETE call targets
TargetLists == {<<"1">>, <<"2">>, <<"1", "2">>}

\* the resource object the caller passes for id: the id and the quantity, as
\* the store has it or, when the store has none, as the server has it
Held(id) ==
  IF id \in DOMAIN state.data /\ Truthy(state.data[id])
  THEN [id |-> id, qty |-> Prop(state.data[id], "qty")]
  ELSE [id |-> id, qty |-> Prop(ServerResource(id), "qty")]

\* a translator classifies every item of the request, or returns nothing
Splits(data) ==
  [DOMAIN data -> {"success", "failure"}] \cup {[i \in DOMAIN data |-> "none"]}

\* the items of data classified as tag, in order
Pick(data, split, tag) ==
  LET idx == {i \in DOMAIN data : split[i] = tag}
  IN [k \in 1..Cardinality(idx) |->
        data[CHOOSE i \in idx : Cardinality({j \in idx : j <= i}) = k]]

(***************************************************************************)
(* actions/patchResources                                                  *)
(***************************************************************************)
defaultOptionsPatch ==
  [debug |-> FALSE,
   handlePatchFailure |-> "noop",
   patchOptimistic |-> TRUE,
   patchResponsesToData |-> "defaultPatchResponsesToData",
   patchTargetsToRequestDataArray |-> "defaultPatchTargetsToRequestDataArray",
   patchRequestDataToDataArray |-> "defaultPatchRequestDataToDataArray"]

\* the options a caller gives patchResources
PatchOptions ==
  {[patchFunc |-> "userFunc"],
   [patchFunc |-> "userFunc", patchResponsesToData |-> "partition"],
   [patchFunc |-> "notAFunction"]}

patchComputedOptions(options) == Merge(defaultOptionsPatch, options)

\* defaultOptions.patchTargetsToRequestDataArray: one request, an array with
\* one patch per target
defaultPatchTargetsToRequestDataArray(targetResources, targetNewProperties) ==
  <<[i \in DOMAIN targetResources |->
       Merge(targetResources[i], targetNewProperties[i])]>>

\* defaultOptions.patchRequestDataToDataArray
defaultPatchRequestDataToDataArray(requestData) == requestData

\* defaultOptions.patchResponsesToData
defaultPatchResponsesToData(patchData) == patchData

\* the caller's translator: every patch classified as applied or failed
patchResponsesToData(data, split) ==
  [successData |-> Pick(data, split, "success"),
   failureData |-> Pick(data, split, "failure")]

\* const { successData, failureData } = ...: the translator's answer has the
\* two properties; the array the default returns has neither
Destructures(translator) == translator # "defaultPatchResponsesToData"

patchActionType(opts, phase) ==
  ActionType(Namespace, "/", opts.patchOptimistic, "PATCH", phase)

\* handleError(failureData, error, requestData): args holds the third
\* argument when the call passes one; a property that is undefined is left out
\* of the event
patchHandleError(opts, failureData, error, args) ==
  Merge([data |-> failureData, error |-> error,
         type |-> patchActionType(opts, "FAIL")], args)

\* the thunk up to `await patchFunc(endpoint, requestData)`
patchResources(options, targets, qty) ==
  LET computedOptions == patchComputedOptions(options)
      targetResources == [i \in DOMAIN targets |-> Held(targets[i])]
      targetNewProperties == [i \in DOMAIN targets |-> [qty |-> qty]]
      requestDataObjs ==
        defaultPatchTargetsToRequestDataArray(targetResources, targetNewProperties)
      requestData == requestDataObjs[1]
      data == defaultPatchRequestDataToDataArray(requestData)
      i == Len(reqs) + 1
      rec == NewRequest("PATCH", computedOptions, data, requestData)
  IN /\ Len(reqs) < MaxCalls
     /\ IF ~IsFunction(Prop(computedOptions, "patchFunc"))
        THEN Throws(NewRequest("PATCH", computedOptions, << >>, << >>))
        ELSE /\ \A id \in IdsOf(rec) : ~Busy(id)
             /\ Turn(Append(reqs, rec), i, rec, "call", EmptyObj,
                     <<[data |-> data, requestData |-> requestData,
                        type |-> patchActionType(computedOptions, "START")]>>,
                     <<"START">>, << >>)

\* patchFunc resolves: the translator's answer is destructured and
\* failureData.length is read first; the TypeError of reading it from
\* undefined is caught as a full failure, like a rejection
patchFuncResolves(i, split) ==
  LET r == reqs[i]
      answer == patchResponsesToData(r.data, split)
      successData == answer.successData
      failureData == answer.failureData
      failEvents ==
        IF Len(failureData) > 0
        THEN <<patchHandleError(r.opts, failureData, Null,
                                [requestData |-> r.requestData])>>
        ELSE << >>
      successEvents ==
        IF Len(successData) > 0
        THEN <<[data |-> successData, requestData |-> r.requestData,
                responseData |-> r.requestData,
                type |-> patchActionType(r.opts, "SUCCESS")]>>
        ELSE << >>
  IN /\ Pending(i) /\ r.op = "PATCH"
     /\ IF Destructures(r.opts.patchResponsesToData)
        THEN Turn(reqs, i, r, "resolved", answer,
                  failEvents \o successEvents,
                  [k \in 1..Len(failEvents) |-> "FAIL"]
                    \o [k \in 1..Len(successEvents) |-> "SUCCESS"],
                  [k \in 1..Len(failEvents) |-> "handlePatchFailure"])
        ELSE /\ split = [k \in DOMAIN r.data |-> "none"]
             /\ Turn(reqs, i, r, "resolved", EmptyObj,
                     <<patchHandleError(r.opts, r.data, TypeError, EmptyObj)>>,
                     <<"FAIL">>, <<"handlePatchFailure">>)

patchFuncRejectsCall(i, error) ==
  LET r == reqs[i]
      mine == {j \in DOMAIN reqs : reqs[j].call = r.call}
      all == [n \in 1..Cardinality(mine) |-> reqs[r.call + n - 1].data[1]]
  IN /\ Pending(i) /\ r.op = "PATCH"
     /\ Turn(reqs, i, r, "rejected", EmptyObj,
             <<patchHandleError(r.opts, all, error, EmptyObj)>>, <<"FAIL">>,
             <<"handlePatchFailure">>)
\* patchFunc rejects with error: handleError(data, error)
patchFuncRejects(i, error) ==
  LET r == reqs[i]
  IN /\ Pending(i) /\ r.op = "PATCH"
     /\ Turn(reqs, i, r, "rejected", EmptyObj,
             <<patchHandleError(r.opts, r.data, error, EmptyObj)>>, <<"FAIL">>,
             <<"handlePatchFailure">>)

(***************************************************************************)
(* actions/postResources                                                   *)
(***************************************************************************)
defaultOptionsPost ==
  [handlePatchFailure |-> "noop",
   idKey |-> "id",
   namespaceSeparator |-> "/",
   newResourceCombiner |-> "newResourceCombiner",
   postOptimistic |-> TRUE,
   postRequestDataToDataArray |-> "defaultPostRequestDataToDataArray",
   postResponsesToData |-> "defaultPostResponsesToData",
   postResourcesToRequestDataArray |-> "defaultPostResourcesToRequestDataArray"]

\* the options a caller gives postResources: postFunc alone (the events are
\* optimistic), or with pessimistic events and translators of the caller's,
\* by which the new resources are sent in one request and the responses are
\* classified
PostOptions ==
  {[postFunc |-> "userFunc"],
   [postFunc |-> "userFunc", postResourcesToRequestDataArray |-> "oneRequest",
    postResponsesToData |-> "partition", postOptimistic |-> FALSE],
   [postResourcesToRequestDataArray |-> "oneRequest",
    postResponsesToData |-> "partition"]}

\* the new resources a caller posts in one call
NewResource == [name |-> "n", qty |-> "5"]
\* one resource when the options leave the translators at their defaults, two
\* when the caller's translators send them in one request
NewResourceLists(options) ==
  IF "postResourcesToRequestDataArray" \in DOMAIN options
  THEN {<<NewResource, NewResource>>} ELSE {<<NewResource>>}

\* what postFunc resolves with for a request of one resource when the default
\* postResponsesToData reads it: a response object whose data holds the
\* created resource, or the array of the created resources itself
PostResponses ==
  {[isArray |-> FALSE, value |-> [data |-> <<[id |-> "1"]>>]],
   [isArray |-> TRUE, value |-> <<[id |-> "1"]>>]}

\* the ids the API gives the resources of a request: the later a resource
\* comes in the request, the lower its id
ResponseIds(data) ==
  {[i \in DOMAIN data |-> IF i = Len(data) THEN "1" ELSE "2"]}

postComputedOptions(options) == Merge(defaultOptionsPost, options)

\* getFakeIdStr() after fakeIdNum += 1
getFakeIdStr(num) == "autoReduxApi_prepos_" \o ToString(num)

\* defaultOptions.postRequestDataToDataArray: R.assoc(idKey, getFakeIdStr())
\* is built once and mapped over the request's resources
defaultPostRequestDataToDataArray(idKey, requestData, num) ==
  [i \in DOMAIN requestData |-> Merge(requestData[i], (idKey :> getFakeIdStr(num)))]

\* R.assoc(k, v, str) for a string of one character: the own enumerable
\* properties of the string (its character, under "0") and k
AssocString(k, v, str) == ("0" :> str) @@ (k :> v)

\* defaultOptions.postResourcesToRequestDataArray: the new resources
\* themselves, so that each resource is the requestData of a request
defaultPostResourcesToRequestDataArray(newResources) == newResources

\* defaultOptions.postRequestDataToDataArray for a requestData that is a
\* resource object: R.map maps over the object's property values
defaultPostRequestDataToDataOfResource(idKey, requestData, num) ==
  [k \in DOMAIN requestData |->
     AssocString(idKey, getFakeIdStr(num), requestData[k])]

\* defaultOptions.postResponsesToData for a data that is not an array (so
\* that data[i] is undefined): mapIndexed over an array of created resources
\* gives an array, over a response object an object
defaultPostResponsesToData(idKey, response) ==
  [successData |->
     IF response.isArray
     THEN [i \in DOMAIN response.value |->
             Merge(Undefined, (idKey :> Prop(response.value[i], idKey)))]
     ELSE [k \in DOMAIN response.value |->
             Merge(Undefined, (idKey :> Undefined))],
   failureData |-> << >>]

\* the caller's translator: each resource with the id the API gave it,
\* classified as created or failed
postResponsesToData(idKey, data, responseIds, split) ==
  LET created == [i \in DOMAIN data |-> Merge(data[i], (idKey :> responseIds[i]))]
  IN [successData |-> Pick(created, split, "success"),
      failureData |-> Pick(created, split, "failure")]

postActionType(opts, phase) ==
  ActionType(Namespace, opts.namespaceSeparator, opts.postOptimistic, "POST", phase)

\* the thunk up to `await postFunc(endpoint, requestData)`
postResources(options, newResources) ==
  LET computedOptions == postComputedOptions(options)
      rawResources == newResources
      byDefault == computedOptions.postResourcesToRequestDataArray
                     = defaultOptionsPost.postResourcesToRequestDataArray
      requestDataObjs ==
        IF byDefault THEN defaultPostResourcesToRequestDataArray(rawResources)
        ELSE <<rawResources>>
      requestData == requestDataObjs[1]
      data == IF byDefault
              THEN defaultPostRequestDataToDataOfResource(
                     computedOptions.idKey, requestData, fakeIdNum + 1)
              ELSE defaultPostRequestDataToDataArray(
                     computedOptions.idKey, requestData, fakeIdNum + 1)
      i == Len(reqs) + 1
      rec == NewRequest("POST", computedOptions, data, requestData)
  IN /\ Len(reqs) < MaxCalls
     \* the calls followed are those that make one request
     /\ Len(requestDataObjs) = 1
     /\ IF ~IsFunction(Prop(computedOptions, "postFunc"))
        THEN Throws(NewRequest("POST", computedOptions, << >>, << >>))
               /\ UNCHANGED fakeIdNum
        ELSE /\ fakeIdNum' = fakeIdNum + 1
             /\ Turn(Append(reqs, rec), i, rec, "call", EmptyObj,
                     <<[data |-> data, requestData |-> requestData,
                        type |-> postActionType(computedOptions, "START")]>>,
                     <<"START">>, << >>)

\* postFunc resolves with response and the default postResponsesToData
\* translates: successData.length is undefined for an object
postFuncResolvesByDefault(i, response) ==
  LET r == reqs[i]
      answer == defaultPostResponsesToData(r.opts.idKey, response)
      successData == answer.successData
      successEvents ==
        IF response.isArray /\ Len(successData) > 0
        THEN <<[data |-> successData, requestData |-> r.requestData,
                responseData |-> successData,
                type |-> postActionType(r.opts, "SUCCESS")]>>
        ELSE << >>
  IN /\ Pending(i) /\ r.op = "POST"
     /\ r.opts.postResponsesToData = defaultOptionsPost.postResponsesToData
     /\ UNCHANGED fakeIdNum
     /\ Turn(reqs, i, r, "resolved", answer, successEvents,
             [k \in 1..Len(successEvents) |-> "SUCCESS"], << >>)

\* postFunc resolves and the caller's postResponsesToData translates
postFuncResolves(i, responseIds, split) ==
  LET r == reqs[i]
      answer == postResponsesToData(r.opts.idKey, r.data, responseIds, split)
      successData == answer.successData
      failureData == answer.failureData
      failEvents ==
        IF Len(failureData) > 0
        THEN <<[data |-> failureData, error |-> Null,
                requestData |-> r.requestData,
                type |-> postActionType(r.opts, "FAIL")]>>
        ELSE << >>
      successEvents ==
        IF Len(successData) > 0
        THEN <<[data |-> successData, requestData |-> r.requestData,
                responseData |-> successData,
                type |-> postActionType(r.opts, "SUCCESS")]>>
        ELSE << >>
  IN /\ UNCHANGED fakeIdNum
     /\ Turn(reqs, i, r, "resolved", answer,
             failEvents \o successEvents,
             [k \in 1..Len(failEvents) |-> "FAIL"]
               \o [k \in 1..Len(successEvents) |-> "SUCCESS"],
             [k \in 1..Len(failEvents) |-> "handlePatchFailure"])

\* postFunc rejects with error
postFuncRejects(i, error) ==
  LET r == reqs[i]
  IN /\ Pending(i) /\ r.op = "POST"
     /\ UNCHANGED fakeIdNum
     /\ Turn(reqs, i, r, "rejected", EmptyObj,
             <<[data |-> r.data, error |-> error, requestData |-> r.requestData,
                type |-> postActionType(r.opts, "FAIL")]>>, <<"FAIL">>,
             <<"handlePatchFailure">>)

(***************************************************************************)
(* actions/deleteResources                                                 *)
(***************************************************************************)
defaultOptionsDelete ==
  [debug |-> FALSE,
   deleteOptimistic |-> TRUE,
   deleteRequestDataToDataArray |-> "defaultDeleteRequestDataToDataArray",
   deleteTargetsToRequestDataArray |-> "defaultDeleteTargetsToRequestDataArray",
   handleDeleteFailure |-> "noop",
   idKey |-> "id",
   namespaceSeparator |-> "/"]

\* the options a caller gives deleteResources
DeleteOptions == {[deleteFunc |-> "userFunc"], [deleteFunc |-> "notAFunction"]}

deleteComputedOptions(options) == Merge(defaultOptionsDelete, options)

\* defaultOptions.deleteTargetsToRequestDataArray: one request, the array of
\* the targets' ids
defaultDeleteTargetsToRequestDataArray(idKey, arrayResourcesToDelete) ==
  <<PropsOf(idKey, arrayResourcesToDelete)>>

\* defaultOptions.deleteRequestDataToDataArray: the target of each id
defaultDeleteRequestDataToDataArray(idKey, targetResources, requestData) ==
  LET targetResourcesMap == FromPairsBy(idKey, targetResources)
  IN [i \in DOMAIN requestData |-> Lookup(targetResourcesMap, requestData[i])]

deleteActionType(opts, phase) ==
  ActionType(Namespace, opts.namespaceSeparator, opts.deleteOptimistic,
             "DELETE", phase)

deleteResourcesStartsLate(options, targets) ==
  LET computedOptions == deleteComputedOptions(options)
      targetResources == [i \in DOMAIN targets |-> Held(targets[i])]
      requestDataObjs ==
        defaultDeleteTargetsToRequestDataArray(computedOptions.idKey, targetResources)
      requestData == requestDataObjs[1]
      data == defaultDeleteRequestDataToDataArray(
                computedOptions.idKey, targetResources, requestData)
      i == Len(reqs) + 1
      rec == NewRequest("DELETE", computedOptions, data, requestData)
  IN /\ Len(reqs) < MaxCalls
     /\ IF ~IsFunction(Prop(computedOptions, "deleteFunc"))
        THEN Throws(NewRequest("DELETE", computedOptions, << >>, << >>))
        ELSE /\ \A id \in IdsOf(rec) : ~Busy(id)
             /\ Turn(Append(reqs, rec), i, rec, "call", EmptyObj,
                     << >>, << >>, << >>)
\* the thunk up to `await deleteFunc(endpoint, { data: requestData })`
deleteResources(options, targets) ==
  LET computedOptions == deleteComputedOptions(options)
      targetResources == [i \in DOMAIN targets |-> Held(targets[i])]
      requestDataObjs ==
        defaultDeleteTargetsToRequestDataArray(computedOptions.idKey, targetResources)
      requestData == requestDataObjs[1]
      data == defaultDeleteRequestDataToDataArray(
                computedOptions.idKey, targetResources, requestData)
      i == Len(reqs) + 1
      rec == NewRequest("DELETE", computedOptions, data, requestData)
  IN /\ Len(reqs) < MaxCalls
     /\ IF ~IsFunction(Prop(computedOptions, "deleteFunc"))
        THEN Throws(NewRequest("DELETE", computedOptions, << >>, << >>))
        ELSE /\ \A id \in IdsOf(rec) : ~Busy(id)
             /\ Turn(Append(reqs, rec), i, rec, "call", EmptyObj,
                     <<[data |-> data, requestData |-> requestData,
                        type |-> deleteActionType(computedOptions, "START")]>>,
                     <<"START">>, << >>)

\* deleteFunc resolves with a response object
deleteFuncResolves(i) ==
  LET r == reqs[i]
  IN /\ Pending(i) /\ r.op = "DELETE"
     /\ Turn(reqs, i, r, "resolved", EmptyObj,
             <<[data |-> r.data, requestData |-> r.requestData,
                responseData |-> r.requestData,
                type |-> deleteActionType(r.opts, "SUCCESS")]>>, <<"SUCCESS">>, << >>)

deleteFuncRejectsSilently(i, error) ==
  LET r == reqs[i]
  IN /\ Pending(i) /\ r.op = "DELETE"
     /\ Turn(reqs, i, r, "rejected", EmptyObj,
             <<[data |-> r.data, error |-> error, requestData |-> r.requestData,
                type |-> deleteActionType(r.opts, "FAIL")]>>, <<"FAIL">>, << >>)
\* deleteFunc rejects with error
deleteFuncRejects(i, error) ==
  LET r == reqs[i]
  IN /\ Pending(i) /\ r.op = "DELETE"
     /\ Turn(reqs, i, r, "rejected", EmptyObj,
             <<[data |-> r.data, error |-> error, requestData |-> r.requestData,
                type |-> deleteActionType(r.opts, "FAIL")]>>, <<"FAIL">>,
             <<"handleDeleteFailure">>)

(***************************************************************************)
(* The store and the thunks dispatched to it.                              *)
(***************************************************************************)
\* the resources a store can be created with (redux's preloadedState)
PreloadedStates ==
  {DefaultState,
   [DefaultState EXCEPT
      !.data = ("1" :> ServerResource("1")) @@ ("2" :> ServerResource("2")),
      !.order = <<"1", "2">>]}

\* no event is dispatched to the store directly
NoJournal == [origin |-> Undefined, events |-> << >>]

\* redux dispatches its INIT action when the store is created: without a
\* preloaded state the reducer returns its defaults
Init ==
  /\ state \in {reducer(Undefined, [type |-> "@@redux/INIT"])} \cup PreloadedStates
  /\ variants = [sameNamespace |-> state, noOptions |-> state]
  /\ reqs = << >>
  /\ dispatched = [req |-> 0, rec |-> EmptyObj, how |-> "init",
                   answer |-> EmptyObj, before |-> EmptyObj,
                   events |-> << >>, phases |-> << >>,
                   callbacks |-> << >>]
  /\ fakeIdNum = 0
  /\ journal = NoJournal

CallGet == \E o \in GetOptions : getResources(o) /\ UNCHANGED fakeIdNum
CallPatch ==
  \E o \in PatchOptions, t \in TargetLists, q \in NewQtys :
    patchResources(o, t, q) /\ UNCHANGED fakeIdNum
CallPost ==
  \E o \in PostOptions : \E n \in NewResourceLists(o) : postResources(o, n)
CallDelete ==
  \E o \in DeleteOptions, t \in TargetLists :
    deleteResources(o, t) /\ UNCHANGED fakeIdNum

GetResolves ==
  \E i \in DOMAIN reqs, p \in GetPayloads :
    getFuncResolves(i, p) /\ UNCHANGED fakeIdNum
GetRejects ==
  \E i \in DOMAIN reqs : getFuncRejects(i, NetworkError) /\ UNCHANGED fakeIdNum
PatchResolves ==
  \E i \in DOMAIN reqs : \E s \in Splits(reqs[i].data) :
    patchFuncResolves(i, s) /\ UNCHANGED fakeIdNum
PatchRejects ==
  \E i \in DOMAIN reqs : patchFuncRejects(i, NetworkError) /\ UNCHANGED fakeIdNum
PostResolves ==
  \E i \in DOMAIN reqs :
    /\ Pending(i) /\ reqs[i].op = "POST"
    /\ reqs[i].opts.postResponsesToData # defaultOptionsPost.postResponsesToData
    /\ \E ids \in ResponseIds(reqs[i].data), s \in Splits(reqs[i].data) :
         postFuncResolves(i, ids, s)
PostResolvesByDefault ==
  \E i \in DOMAIN reqs, response \in PostResponses :
    postFuncResolvesByDefault(i, response)
PostRejects == \E i \in DOMAIN reqs : postFuncRejects(i, NetworkError)
DeleteResolves == \E i \in DOMAIN reqs : deleteFuncResolves(i) /\ UNCHANGED fakeIdNum
DeleteRejects ==
  \E i \in DOMAIN reqs : deleteFuncRejects(i, NetworkError) /\ UNCHANGED fakeIdNum

Next ==
  \/ CallGet
  \/ CallPatch
  \/ CallPost
  \/ CallDelete
  \/ GetResolves
  \/ GetRejects
  \/ PatchResolves
  \/ PatchRejects
  \/ PostResolves
  \/ PostResolvesByDefault
  \/ PostRejects
  \/ DeleteResolves
  \/ DeleteRejects

Spec == Init /\ [][Next]_vars

(***************************************************************************)
(* The thunks when every transport call eventually resolves or rejects.    *)
(* The POST calls followed are those whose responses the caller's          *)
(* translator classifies.                                                  *)
(***************************************************************************)
CallPostTranslated ==
  \E o \in {p \in PostOptions : "postResponsesToData" \in DOMAIN p} :
    \E n \in NewResourceLists(o) : postResources(o, n)

LiveNext ==
  \/ CallGet
  \/ CallPatch
  \/ CallPostTranslated
  \/ CallDelete
  \/ GetResolves
  \/ GetRejects
  \/ PatchResolves
  \/ PatchRejects
  \/ PostResolves
  \/ PostRejects
  \/ DeleteResolves
  \/ DeleteRejects

\* the transport of request i settles and the request runs to its end
Settles(i) ==
  /\ i \in DOMAIN reqs
  /\ \/ \E p \in GetPayloads : getFuncResolves(i, p) /\ UNCHANGED fakeIdNum
     \/ getFuncRejects(i, NetworkError) /\ UNCHANGED fakeIdNum
     \/ /\ reqs[i].op = "PATCH"
        /\ \E s \in Splits(reqs[i].data) : patchFuncResolves(i, s) /\ UNCHANGED fakeIdNum
     \/ patchFuncRejects(i, NetworkError) /\ UNCHANGED fakeIdNum
     \/ /\ Pending(i) /\ reqs[i].op = "POST"
        /\ \E ids \in ResponseIds(reqs[i].data), s \in Splits(reqs[i].data) :
             postFuncResolves(i, ids, s)
     \/ postFuncRejects(i, NetworkError)
     \/ deleteFuncResolves(i) /\ UNCHANGED fakeIdNum
     \/ deleteFuncRejects(i, NetworkError) /\ UNCHANGED fakeIdNum

\* which requests' transports have settled; every step of Settles(i)
\* changes it
Settled == [i \in 1..MaxCalls |-> i \in DOMAIN reqs /\ reqs[i].settled]

\* every transport call eventually resolves or rejects: the promise a thunk
\* awaits is settled and the event loop runs the thunk's continuation
LiveSpec ==
  Init /\ [][LiveNext]_vars /\ \A i \in 1..MaxCalls : WF_Settled(Settles(i))

(***************************************************************************)
(* Calls that make several requests: the caller's translator of targets    *)
(* (of new resources) returns one request payload per target.  forEach     *)
(* calls the async callback for every payload in turn; each call runs to   *)
(* its first await, so it dispatches START and calls the transport, and    *)
(* returns; the callbacks' continuations run when the transports settle.   *)
(***************************************************************************)
\* the caller's patchTargetsToRequestDataArray: a request per target, an array
\* with the target's patch
patchOnePerTarget(targetResources, targetNewProperties) ==
  [i \in DOMAIN targetResources |->
     <<Merge(targetResources[i], targetNewProperties[i])>>]

\* the caller's deleteTargetsToRequestDataArray: a request per target, an
\* array with the target's id
deleteOnePerTarget(idKey, arrayResourcesToDelete) ==
  [i \in DOMAIN arrayResourcesToDelete |->
     <<Prop(arrayResourcesToDelete[i], idKey)>>]

\* the caller's postResourcesToRequestDataArray: a request per new resource,
\* an array with the resource
postOnePerTarget(newResources) == [i \in DOMAIN newResources |-> <<newResources[i]>>]

PatchEachOptions ==
  {[patchFunc |-> "userFunc", patchTargetsToRequestDataArray |-> "onePerTarget",
    patchResponsesToData |-> "partition"]}
DeleteEachOptions ==
  {[deleteFunc |-> "userFunc", deleteTargetsToRequestDataArray |-> "onePerTarget"]}
PostEachOptions ==
  {[postFunc |-> "userFunc", postResourcesToRequestDataArray |-> "onePerTarget",
    postResponsesToData |-> "partition", postOptimistic |-> FALSE]}

\* the new resources a caller posts in one call
NewResourcesEach == {<<NewResource>>, <<NewResource, NewResource>>}

forEachStartsOne(op, opts, requestDataObjs, datas, type) ==
  LET first == Len(reqs) + 1
      event == [data |-> datas[1], requestData |-> requestDataObjs[1], type |-> type]
      after == dispatchAll(state, <<event>>)
      rec == NewRequest(op, opts, datas[1], requestDataObjs[1])
  IN /\ Len(reqs) + Len(requestDataObjs) <= MaxCalls
     /\ reqs' = Append(reqs, [rec EXCEPT !.phases = <<"START">>])
     /\ state' = after
     /\ variants' = dispatchAllVariants(variants, <<event>>)
     /\ journal' = journal
     /\ dispatched' = [req |-> first, rec |-> rec, how |-> "call",
                       answer |-> EmptyObj, before |-> state,
                       events |-> <<event>>, phases |-> <<"START">>,
                       callbacks |-> << >>, payloads |-> requestDataObjs]
\* R.forEach(async (requestData) => { ... }, R.values(requestDataObjs)) up to
\* its return: for each payload in order, the request's data (datas[n]) has
\* been computed, START dispatched and the transport called
forEachStarts(op, opts, requestDataObjs, datas, type) ==
  LET k == Len(requestDataObjs)
      first == Len(reqs) + 1
      events == [n \in 1..k |->
                   [data |-> datas[n], requestData |-> requestDataObjs[n],
                    type |-> type]]
      \* the slice after the first n STARTs
      sliceAt(n) == dispatchAll(state, SubSeq(events, 1, n))
      after == sliceAt(k)
      recOf(n) == NewRequest(op, opts, datas[n], requestDataObjs[n])
      started(n) ==
        [recOf(n) EXCEPT
           !.phases = <<"START">>,
           !.pre = [id \in IdsOf(recOf(n)) \cap DOMAIN sliceAt(n - 1).data |->
                      sliceAt(n - 1).data[id]],
           !.intact = \A id \in IdsOf(recOf(n)) : SameUnder(sliceAt(n), after, id)]
  IN /\ Len(reqs) + k <= MaxCalls
     /\ reqs' = [j \in DOMAIN reqs |->
                   IF InFlight(reqs[j])
                   THEN [reqs[j] EXCEPT !.intact =
                           @ /\ \A id \in IdsOf(reqs[j]) : SameUnder(state, after, id)]
                   ELSE reqs[j]]
                \o [n \in 1..k |-> started(n)]
     /\ state' = after
     /\ variants' = dispatchAllVariants(variants, events)
     /\ journal' = journal
     /\ dispatched' = [req |-> first, rec |-> recOf(1), how |-> "call",
                       answer |-> EmptyObj, before |-> state,
                       events |-> events, phases |-> [n \in 1..k |-> "START"],
                       callbacks |-> << >>, payloads |-> requestDataObjs]

\* patchResources with the caller's translator of targets
patchResourcesEach(options, targets, qty) ==
  LET computedOptions == patchComputedOptions(options)
      targetResources == [i \in DOMAIN targets |-> Held(targets[i])]
      targetNewProperties == [i \in DOMAIN targets |-> [qty |-> qty]]
      requestDataObjs == patchOnePerTarget(targetResources, targetNewProperties)
      datas == [n \in DOMAIN requestDataObjs |->
                  defaultPatchRequestDataToDataArray(requestDataObjs[n])]
  IN /\ \A i \in DOMAIN targets : ~Busy(targets[i])
     /\ forEachStarts("PATCH", computedOptions, requestDataObjs, datas,
                      patchActionType(computedOptions, "START"))
     /\ UNCHANGED fakeIdNum

\* deleteResources with the caller's translator of targets
deleteResourcesEach(options, targets) ==
  LET computedOptions == deleteComputedOptions(options)
      targetResources == [i \in DOMAIN targets |-> Held(targets[i])]
      requestDataObjs == deleteOnePerTarget(computedOptions.idKey, targetResources)
      datas == [n \in DOMAIN requestDataObjs |->
                  defaultDeleteRequestDataToDataArray(
                    computedOptions.idKey, targetResources, requestDataObjs[n])]
  IN /\ \A i \in DOMAIN targets : ~Busy(targets[i])
     /\ forEachStarts("DELETE", computedOptions, requestDataObjs, datas,
                      deleteActionType(computedOptions, "START"))
     /\ UNCHANGED fakeIdNum

\* postResources with the caller's translator of new resources; getFakeIdStr
\* is called once for each request
postResourcesEach(options, newResources) ==
  LET computedOptions == postComputedOptions(options)
      requestDataObjs == postOnePerTarget(newResources)
      datas == [n \in DOMAIN requestDataObjs |->
                  defaultPostRequestDataToDataArray(
                    computedOptions.idKey, requestDataObjs[n], fakeIdNum + n)]
  IN /\ forEachStarts("POST", computedOptions, requestDataObjs, datas,
                      postActionType(computedOptions, "START"))
     /\ fakeIdNum' = fakeIdNum + Len(requestDataObjs)

CallPatchEach ==
  \E o \in PatchEachOptions, t \in TargetLists, q \in NewQtys :
    patchResourcesEach(o, t, q)
CallDeleteEach ==
  \E o \in DeleteEachOptions, t \in TargetLists : deleteResourcesEach(o, t)
CallPostEach ==
  \E o \in PostEachOptions, n \in NewResourcesEach : postResourcesEach(o, n)

BatchNext ==
  \/ CallPatchEach
  \/ CallDeleteEach
  \/ CallPostEach
  \/ PatchResolves
  \/ PatchRejects
  \/ PostResolves
  \/ PostRejects
  \/ DeleteResolves
  \/ DeleteRejects

BatchSpec == Init /\ [][BatchNext]_vars

(***************************************************************************)
(* The slice reducer as a function: events are dispatched to the store     *)
(* directly (store.dispatch(event)), in any order, whether or not a thunk  *)
(* would dispatch them so.  journal holds the slice the events started     *)
(* from and the events; dispatched holds the last of them.                 *)
(***************************************************************************)
\* the item of id in the data of a PATCH event (target and new properties
\* merged) and of a DELETE event (the target)
PatchItem(id) == [id |-> id, qty |-> "9"]
DeleteItem(id) == [id |-> id, qty |-> "5"]

\* the ids of the events dispatched directly: each names one resource
StoreTargets == {<<"1">>, <<"2">>}

Phases == {"START", "SUCCESS", "FAIL"}

PatchEvent(phase, ids) ==
  [type |-> ActionType(Namespace, "/", TRUE, "PATCH", phase),
   data |-> [i \in DOMAIN ids |-> PatchItem(ids[i])]]

DeleteEvent(phase, ids) ==
  [type |-> ActionType(Namespace, "/", TRUE, "DELETE", phase),
   data |-> [i \in DOMAIN ids |-> DeleteItem(ids[i])]]

PostEvent(phase) ==
  [type |-> ActionType(Namespace, "/", FALSE, "POST", phase),
   data |-> <<NewResource>>]

GetEvent(phase) ==
  [type |-> ActionType(Namespace, "/", FALSE, "GET", phase),
   error |-> NetworkError, params |-> Params]

\* an action of another part of the application
OtherEvent == [type |-> "products/SELECT", id |-> "1"]

\* what the store is created with: nothing (the slice has no prior state,
\* and is given the defaults by the first action), or a preloaded slice
StoreInit ==
  /\ state \in {Undefined} \cup (PreloadedStates \ {DefaultState})
  /\ variants = [withBase |-> state]
  /\ reqs = << >>
  /\ dispatched = [req |-> 0, rec |-> EmptyObj, how |-> "init",
                   answer |-> EmptyObj, before |-> EmptyObj,
                   events |-> << >>, phases |-> << >>,
                   callbacks |-> << >>]
  /\ fakeIdNum = 0
  /\ journal = [origin |-> state, events |-> << >>]

\* store.dispatch(event): redux calls the slice reducer with the slice and
\* the event and keeps what it returns
Dispatch(op, phase, event) ==
  /\ Len(journal.events) < MaxEvents
  /\ state' = reducer(state, event)
  /\ variants' = [withBase |-> reducerWithBase(variants.withBase, event)]
  /\ dispatched' = [req |-> 0, rec |-> [op |-> op], how |-> "store",
                    answer |-> EmptyObj, before |-> state,
                    events |-> <<event>>, phases |-> <<phase>>,
                    callbacks |-> << >>]
  /\ journal' = [journal EXCEPT !.events = Append(@, event)]
  /\ UNCHANGED <<reqs, fakeIdNum>>

DispatchPatch ==
  \E phase \in Phases, ids \in StoreTargets :
    Dispatch("PATCH", phase, PatchEvent(phase, ids))
DispatchDelete ==
  \E phase \in Phases, ids \in StoreTargets :
    Dispatch("DELETE", phase, DeleteEvent(phase, ids))
DispatchPost ==
  \E phase \in {"START", "FAIL"} : Dispatch("POST", phase, PostEvent(phase))
DispatchGet == Dispatch("GET", "FAIL", GetEvent("FAIL"))
DispatchOther == Dispatch("OTHER", "NONE", OtherEvent)

StoreNext ==
  \/ DispatchPatch
  \/ DispatchDelete
  \/ DispatchPost
  \/ DispatchGet
  \/ DispatchOther

StoreSpec == StoreInit /\ [][StoreNext]_vars

(***************************************************************************)
(* Properties.  They are stated on the last turn (dispatched) and the      *)
(* slice it left (state).                                                  *)
(***************************************************************************)
\* the last turn is the one a settling transport of an op request started
Ended(op) ==
  dispatched.how \in {"resolved", "rejected"} /\ dispatched.rec.op = op

\* the last turn is the call of an op thunk
Started(op) == dispatched.how = "call" /\ dispatched.rec.op = op

\* the ids named by the data of the last turn's events of a phase
IdsIn(phase) ==
  UNION {{Key(Prop(dispatched.events[k].data[i], "id")) :
            i \in DOMAIN dispatched.events[k].data} :
         k \in {j \in DOMAIN dispatched.events : dispatched.phases[j] = phase}}

\* the ids of the last turn's request that data held just before its START
Known == IdsOf(dispatched.rec) \cap DOMAIN dispatched.rec.pre

\* the item of the last turn's request for id
ItemFor(id) ==
  dispatched.rec.data[CHOOSE i \in DOMAIN dispatched.rec.data :
                        Key(Prop(dispatched.rec.data[i], "id")) = id]

\* data[id] is v and id has no snapshot of a PATCH
Holds(id, v) ==
  /\ id \in DOMAIN state.data
  /\ state.data[id] = v
  /\ id \notin DOMAIN state.prePatchResources

\* the requests of op that have dispatched START and no terminal event
AwaitingTerminal(op) ==
  {j \in DOMAIN reqs : reqs[j].op = op /\ reqs[j].phases = <<"START">>}

\* C1: PATCH rollback.  When OPT_PATCH_START and then OPT_PATCH_FAIL of the
\* same patch have been reduced, with no event of another request changing
\* the slice under the patch's ids in between, every id of the patch that was
\* a key of data before START holds the value it had just before START, and
\* prePatchResources has no entry for it.
C1_PatchRollback ==
  (/\ Ended("PATCH")
   /\ dispatched.rec.phases = <<"START">>
   /\ dispatched.phases = <<"FAIL">>
   /\ dispatched.rec.intact)
  => \A id \in IdsIn("FAIL") \cap Known : Holds(id, dispatched.rec.pre[id])

\* a PATCH that changed a resource of the store has been rolled back
C1_Witness ==
  /\ Ended("PATCH")
  /\ dispatched.rec.phases = <<"START">>
  /\ dispatched.phases = <<"FAIL">>
  /\ dispatched.rec.intact
  /\ \E id \in IdsIn("FAIL") \cap Known :
       Merge(dispatched.rec.pre[id], ItemFor(id)) # dispatched.rec.pre[id]

\* C2: PATCH commit.  When OPT_PATCH_START and then OPT_PATCH_SUCCESS of the
\* same patch have been reduced, with no event of another request changing
\* the slice under the patch's ids in between, every id of the patch that was
\* a key of data before START holds the shallow merge of the old resource and
\* the patch (the patch's fields win), and prePatchResources has no entry for
\* it.
C2_PatchCommit ==
  (/\ Ended("PATCH")
   /\ dispatched.rec.phases = <<"START">>
   /\ dispatched.phases = <<"SUCCESS">>
   /\ dispatched.rec.intact)
  => \A id \in IdsIn("SUCCESS") \cap Known :
       Holds(id, Merge(dispatched.rec.pre[id], ItemFor(id)))

\* a PATCH has been committed whose merge is neither the old resource nor the
\* patch alone
C2_Witness ==
  /\ Ended("PATCH")
  /\ dispatched.rec.phases = <<"START">>
  /\ dispatched.phases = <<"SUCCESS">>
  /\ dispatched.rec.intact
  /\ \E id \in IdsIn("SUCCESS") \cap Known :
       /\ Merge(dispatched.rec.pre[id], ItemFor(id)) # dispatched.rec.pre[id]
       /\ Merge(dispatched.rec.pre[id], ItemFor(id)) # ItemFor(id)

\* C3: DELETE rollback.  For every id under which data holds a resource,
\* reducing OPT_DELETE_START for id removes id from data and stores the
\* resource in preDeleteResources[id]; when OPT_DELETE_FAIL for id has been
\* reduced afterwards (no event of another request changing the slice under
\* id in between), data holds the same resource under id again and
\* preDeleteResources has no entry for id.
C3_DeleteRollback ==
  /\ Started("DELETE")
     => \A id \in Known :
          Truthy(dispatched.rec.pre[id])
          => /\ id \notin DOMAIN state.data
             /\ id \in DOMAIN state.preDeleteResources
             /\ state.preDeleteResources[id] = dispatched.rec.pre[id]
  /\ (/\ Ended("DELETE")
      /\ dispatched.rec.phases = <<"START">>
      /\ dispatched.phases = <<"FAIL">>
      /\ dispatched.rec.intact)
     => \A id \in IdsIn("FAIL") \cap Known :
          Truthy(dispatched.rec.pre[id])
          => /\ id \in DOMAIN state.data
             /\ state.data[id] = dispatched.rec.pre[id]
             /\ id \notin DOMAIN state.preDeleteResources

\* a DELETE of a resource of the store has been rolled back
C3_Witness ==
  /\ Ended("DELETE")
  /\ dispatched.rec.phases = <<"START">>
  /\ dispatched.phases = <<"FAIL">>
  /\ dispatched.rec.intact
  /\ \E id \in IdsIn("FAIL") \cap Known : Truthy(dispatched.rec.pre[id])

\* C4: snapshot means in flight.  In every state, an id has an entry in
\* prePatchResources only while a PATCH request for that id has dispatched
\* START and not yet a terminal event, and an entry in preDeleteResources
\* only while a DELETE request for that id has.
C4_SnapshotMeansInFlight ==
  /\ \A id \in DOMAIN state.prePatchResources :
       \E j \in AwaitingTerminal("PATCH") : id \in IdsOf(reqs[j])
  /\ \A id \in DOMAIN state.preDeleteResources :
       \E j \in AwaitingTerminal("DELETE") : id \in IdsOf(reqs[j])

\* C5: GET counter.  In every state numGetsInProgress is the number of
\* getResources calls that have dispatched START and not yet a terminal
\* event, and so is never negative.
C5_GetCounter ==
  /\ state.numGetsInProgress >= 0
  /\ state.numGetsInProgress = Cardinality(AwaitingTerminal("GET"))

\* C6: POST counter.  In every state numPosting is the number of POST
\* requests with pessimistic events that have dispatched START and not yet a
\* terminal event, and so is never negative.
C6_PostCounter ==
  /\ state.numPosting >= 0
  /\ state.numPosting =
       Cardinality({j \in AwaitingTerminal("POST") : ~reqs[j].opts.postOptimistic})

\* C7: GET protocol.  The events of a getResources call are one START and
\* then one terminal event: SUCCESS and no FAIL when getFunc resolves, FAIL
\* and no SUCCESS when getFunc rejects.
C7_GetProtocol ==
  Ended("GET")
  => dispatched.rec.phases \o dispatched.phases =
       IF dispatched.how = "resolved"
       THEN <<"START", "SUCCESS">> ELSE <<"START", "FAIL">>

\* C8: PATCH with the default translators.  When patchFunc resolves for a
\* request whose patchResponsesToData is the default, the request ends with
\* one SUCCESS event and no FAIL event, so that (no event of another request
\* changing the slice under its ids) data holds the merged patch under every
\* id of the request and prePatchResources has no entry for it.
C8_PatchDefaultTranslators ==
  (/\ Ended("PATCH")
   /\ dispatched.how = "resolved"
   /\ dispatched.rec.opts.patchResponsesToData = defaultOptionsPatch.patchResponsesToData)
  => /\ dispatched.phases = <<"SUCCESS">>
     /\ dispatched.rec.intact
        => \A id \in Known : Holds(id, Merge(dispatched.rec.pre[id], ItemFor(id)))

\* C9: partial failure.  When the PATCH response translator returns non-empty
\* successData and non-empty failureData for a request, the turn dispatches a
\* FAIL event carrying failureData and a SUCCESS event carrying successData;
\* after both are reduced (no event of another request having changed the
\* slice under the request's ids since START), every failed id that was a key
\* of data before START holds its pre-patch value, every such succeeded id
\* holds the merged patch, and prePatchResources has no entry for either.
C9_PartialFailure ==
  (/\ Ended("PATCH")
   /\ "failureData" \in DOMAIN dispatched.answer
   /\ dispatched.answer.failureData # << >>
   /\ dispatched.answer.successData # << >>)
  => /\ dispatched.phases = <<"FAIL", "SUCCESS">>
     /\ Len(dispatched.events) = 2
     /\ dispatched.events[1].type = patchActionType(dispatched.rec.opts, "FAIL")
     /\ dispatched.events[1].data = dispatched.answer.failureData
     /\ dispatched.events[2].type = patchActionType(dispatched.rec.opts, "SUCCESS")
     /\ dispatched.events[2].data = dispatched.answer.successData
     /\ IdsIn("FAIL") \cup IdsIn("SUCCESS") = IdsOf(dispatched.rec)
     /\ dispatched.rec.intact
        => /\ \A id \in IdsIn("FAIL") \cap Known :
                Holds(id, dispatched.rec.pre[id])
           /\ \A id \in IdsIn("SUCCESS") \cap Known :
                Holds(id, Merge(dispatched.rec.pre[id], ItemFor(id)))

\* a request for two resources of the store has ended with one patch failed
\* and one applied
C9_Witness ==
  /\ Ended("PATCH")
  /\ "failureData" \in DOMAIN dispatched.answer
  /\ dispatched.answer.failureData # << >>
  /\ dispatched.answer.successData # << >>
  /\ dispatched.rec.intact
  /\ IdsIn("FAIL") \cap Known # {}
  /\ IdsIn("SUCCESS") \cap Known # {}

\* C10: transport failure payload.  When the transport function of a request
\* rejects, the turn dispatches a FAIL event whose error is the rejection
\* value and which carries the payload sent to the transport: requestData,
\* or for GET the params.
C10_TransportFailurePayload ==
  dispatched.how = "rejected"
  => \E k \in DOMAIN dispatched.events :
       LET e == dispatched.events[k]
       IN /\ dispatched.phases[k] = "FAIL"
          /\ e.error = NetworkError
          /\ IF dispatched.rec.op = "GET"
             THEN "params" \in DOMAIN e /\ e.params = dispatched.rec.requestData.params
             ELSE "requestData" \in DOMAIN e
                    /\ e.requestData = dispatched.rec.requestData

\* the FAIL events of the last turn, and the failure callbacks it called
FailsIn == {k \in DOMAIN dispatched.events : dispatched.phases[k] = "FAIL"}
FailureCallbacksIn ==
  {k \in DOMAIN dispatched.callbacks :
     dispatched.callbacks[k] \in {"handlePatchFailure", "handleDeleteFailure"}}

\* the failure callback option of an operation: postResources and
\* patchResources both take handlePatchFailure, getResources takes none
FailureCallbackOf(op) ==
  IF op = "DELETE" THEN "handleDeleteFailure" ELSE "handlePatchFailure"

TransportOf(op) ==
  CASE op = "GET" -> "getFunc"
    [] op = "POST" -> "postFunc"
    [] op = "PATCH" -> "patchFunc"
    [] op = "DELETE" -> "deleteFunc"

\* C12: configuration error.  A thunk whose transport option is missing or
\* not a function raises an error and dispatches no event, so the slice is
\* as it was; no thunk gets as far as START without a transport function.
C12_ConfigurationError ==
  /\ (dispatched.req # 0 \/ dispatched.how = "threw")
     => (dispatched.how = "threw")
          = ~IsFunction(Prop(dispatched.rec.opts, TransportOf(dispatched.rec.op)))
  /\ dispatched.how = "threw"
     => /\ dispatched.events = << >>
        /\ state = dispatched.before
        /\ \A j \in DOMAIN reqs : reqs[j].phases # << >>

\* a thunk without a transport function has thrown over a slice that holds
\* resources
C12_Witness ==
  /\ dispatched.how = "threw"
  /\ ~IsFunction(Prop(dispatched.rec.opts, TransportOf(dispatched.rec.op)))
  /\ state.data # EmptyObj

\* C13: sequencer and reducer agree on action types.  With the namespace of
\* the thunks given to withReductions as it is, every event type the GET,
\* PATCH and DELETE thunks dispatch is a key of the reducer's flat map, and a
\* GET START is applied by getStartReducer (the slice then counts a GET in
\* progress).
C13_TypesAgree ==
  (dispatched.req # 0 /\ dispatched.rec.op \in {"GET", "PATCH", "DELETE"})
  => /\ \A k \in DOMAIN dispatched.events :
          dispatched.events[k].type \in DOMAIN sameNamespaceFuncMap
     /\ Started("GET")
        => variants.sameNamespace.numGetsInProgress
             = dispatched.before.numGetsInProgress + 1

\* the options a caller who supplies only postFunc ends up with
OnlyPostFunc == postComputedOptions([postFunc |-> "userFunc"])

\* C14: POST with default options reaches the POST reducers.  Every event a
\* postResources call with only postFunc supplied dispatches has a type the
\* reducer's flat map handles, numPosting is one higher after its START, and
\* after its SUCCESS the created resources are in data.
C14_DefaultPostReduced ==
  (dispatched.req # 0 /\ dispatched.rec.op = "POST"
     /\ dispatched.rec.opts = OnlyPostFunc)
  => /\ \A k \in DOMAIN dispatched.events :
          dispatched.events[k].type \in DOMAIN reducerFuncMap
     /\ Started("POST")
        => state.numPosting = dispatched.before.numPosting + 1
     /\ \A k \in DOMAIN dispatched.events :
          dispatched.phases[k] = "SUCCESS"
          => \A n \in DOMAIN dispatched.events[k].data :
               Key(Prop(dispatched.events[k].data[n], "id")) \in DOMAIN state.data

\* C15: idKey defaults to "id".  On the slice of a reducer built by
\* withReductions with no options, after a GET whose SUCCESS carried the
\* payload, data has one entry per resource of the payload, keyed by its id
\* field, and order lists those ids.
C15_IdKeyDefault ==
  (dispatched.req # 0 /\ dispatched.rec.op = "GET"
     /\ dispatched.phases # << >> /\ dispatched.phases[1] = "SUCCESS")
  => LET payload == dispatched.events[1].data
     IN /\ DOMAIN variants.noOptions.data
             = {payload[n].id : n \in DOMAIN payload}
        /\ variants.noOptions.order
             = [n \in DOMAIN payload |-> payload[n].id]

\* the separator and the optimism a request's options configure
SeparatorOf(opts) ==
  IF "namespaceSeparator" \in DOMAIN opts THEN opts.namespaceSeparator ELSE "/"

OptimisticOf(op, opts) ==
  LET name == CASE op = "GET" -> "getOptimistic"
                [] op = "POST" -> "postOptimistic"
                [] op = "PATCH" -> "patchOptimistic"
                [] op = "DELETE" -> "deleteOptimistic"
  IN IF name \in DOMAIN opts THEN opts[name] ELSE FALSE

\* C16: action type format.  Every event a thunk dispatches has the type
\* namespace, configured separator ("/" when none is configured), OPT when
\* the operation's optimistic option is true and PESS otherwise, "_",
\* operation, "_", phase; for GET, POST, PATCH and DELETE alike.
C16_ActionTypeFormat ==
  dispatched.req # 0
  => \A k \in DOMAIN dispatched.events :
       dispatched.events[k].type
         = ActionType(Namespace, SeparatorOf(dispatched.rec.opts),
                      OptimisticOf(dispatched.rec.op, dispatched.rec.opts),
                      dispatched.rec.op, dispatched.phases[k])

\* C17: GET outcome flags.  After a turn of a GET request that ended with
\* SUCCESS getSucceeded is true and getFailed false, after one that ended
\* with FAIL getFailed is true and getSucceeded false, whatever other GET
\* calls overlap with it; and the two flags are never both true.
C17_GetOutcomeFlags ==
  /\ ~(state.getSucceeded /\ state.getFailed)
  /\ (dispatched.req # 0 /\ dispatched.rec.op = "GET"
        /\ dispatched.phases # << >>)
     => LET last == dispatched.phases[Len(dispatched.phases)]
        IN /\ last = "SUCCESS" => state.getSucceeded /\ ~state.getFailed
           /\ last = "FAIL" => state.getFailed /\ ~state.getSucceeded

\* C18: GET start reset.  Whatever the slice held before, after the START of
\* a getResources call data is {} and order is [], getFailed and getSucceeded
\* are false and numGetsInProgress is one higher than before.
C18_GetStartReset ==
  Started("GET")
  => /\ state.data = EmptyObj
     /\ state.order = << >>
     /\ ~state.getFailed
     /\ ~state.getSucceeded
     /\ state.numGetsInProgress = dispatched.before.numGetsInProgress + 1

\* a GET has started over a slice that held resources, an order and the
\* flag of an earlier GET
C18_Witness ==
  /\ Started("GET")
  /\ dispatched.before.data # EmptyObj
  /\ dispatched.before.order # << >>
  /\ dispatched.before.getSucceeded
  /\ state.data = EmptyObj

\* C19: GET success replacement.  Whatever the slice held before, after the
\* SUCCESS of a GET data holds exactly the resources of the payload, each
\* under its id (nothing of the data before survives), order is the
\* payload's ids in the payload's order, getSucceeded is true and the
\* SUCCESS has lowered numGetsInProgress by one.
C19_GetSuccessReplaces ==
  (Ended("GET") /\ dispatched.phases # << >>
     /\ dispatched.phases[1] = "SUCCESS")
  => LET payload == dispatched.events[1].data
         ids == {payload[n].id : n \in DOMAIN payload}
     IN /\ DOMAIN state.data = ids
        /\ \A n \in DOMAIN payload : state.data[payload[n].id] = payload[n]
        /\ state.order = [n \in DOMAIN payload |-> payload[n].id]
        /\ state.getSucceeded
        /\ dispatched.phases = <<"SUCCESS">>
           => state.numGetsInProgress
                = dispatched.before.numGetsInProgress - 1

\* a GET has succeeded with a payload that lacks a resource the slice held
\* just before
C19_Witness ==
  /\ Ended("GET")
  /\ dispatched.phases = <<"SUCCESS">>
  /\ \E id \in DOMAIN dispatched.before.data : id \notin DOMAIN state.data
  /\ Len(state.order) = 1

\* C20: POST success ordering.  Whatever the slice held before, after the
\* PESS_POST_SUCCESS of a POST the order of before is a prefix of order, left
\* as it was, and the ids appended after it are the ids of the resources of
\* the SUCCESS event's payload.
C20_PostSuccessOrder ==
  (Ended("POST") /\ ~dispatched.rec.opts.postOptimistic)
  => \A k \in DOMAIN dispatched.events :
       dispatched.phases[k] = "SUCCESS"
       => LET payload == dispatched.events[k].data
              prior == dispatched.before.order
          IN /\ Len(state.order) >= Len(prior)
             /\ SubSeq(state.order, 1, Len(prior)) = prior
             /\ {state.order[n] : n \in (Len(prior) + 1)..Len(state.order)}
                  = {payload[n].id : n \in DOMAIN payload}
             /\ Len(state.order) - Len(prior)
                  = Cardinality({payload[n].id : n \in DOMAIN payload})

\* a POST of two resources has succeeded over a slice whose order was not
\* empty
C20_Witness ==
  /\ Ended("POST")
  /\ ~dispatched.rec.opts.postOptimistic
  /\ dispatched.phases = <<"SUCCESS">>
  /\ Len(dispatched.events[1].data) = 2
  /\ dispatched.before.order # << >>
  /\ Len(state.order) = Len(dispatched.before.order) + 2

(***************************************************************************)
(* Properties of the slice reducer, stated on the last event dispatched to *)
(* the store directly (dispatched), the slice before it                    *)
(* (dispatched.before) and the slice it left (state).                      *)
(***************************************************************************)
\* the last step dispatched an event of op and phase to a slice that existed
Reduced(op, phase) ==
  /\ dispatched.how = "store"
  /\ dispatched.rec.op = op
  /\ dispatched.phases = <<phase>>
  /\ Truthy(dispatched.before)

\* the ids the last event's data names
EventIds ==
  {dispatched.events[1].data[i].id : i \in DOMAIN dispatched.events[1].data}

\* the last two events dispatched are the same event
Repeated ==
  LET n == Len(journal.events)
  IN n >= 2 /\ journal.events[n] = journal.events[n - 1]

\* C21: success is idempotent.  An OPT_PATCH_SUCCESS (OPT_DELETE_SUCCESS) for
\* ids none of which has a snapshot in prePatchResources (preDeleteResources)
\* returns a slice equal to the one it was given, and so does the second of
\* two equal SUCCESS events in a row.
C21_SuccessIdempotent ==
  /\ (Reduced("PATCH", "SUCCESS")
        /\ (EventIds \cap DOMAIN dispatched.before.prePatchResources = {}
             \/ Repeated))
     => state = dispatched.before
  /\ (Reduced("DELETE", "SUCCESS")
        /\ (EventIds \cap DOMAIN dispatched.before.preDeleteResources = {}
             \/ Repeated))
     => state = dispatched.before

\* a PATCH of a resource the slice holds has started and its SUCCESS has
\* been reduced twice
C21_Witness ==
  /\ Reduced("PATCH", "SUCCESS")
  /\ Truthy(journal.origin)
  /\ "1" \in DOMAIN journal.origin.data
  /\ journal.events = <<PatchEvent("START", <<"1">>),
                        PatchEvent("SUCCESS", <<"1">>),
                        PatchEvent("SUCCESS", <<"1">>)>>

\* the slice after the first n events of the journal
SliceAfter(n) == dispatchAll(journal.origin, SubSeq(journal.events, 1, n))

\* C22: deletion never prunes order.  OPT_DELETE_START, OPT_DELETE_SUCCESS
\* and OPT_DELETE_FAIL each leave order as it was, so that after the START
\* and SUCCESS of a delete the ids are listed in order as before the START
\* while data has them no more.
C22_DeleteKeepsOrder ==
  /\ \A phase \in Phases :
       Reduced("DELETE", phase) => state.order = dispatched.before.order
  /\ (/\ Reduced("DELETE", "SUCCESS")
      /\ Len(journal.events) >= 2
      /\ journal.events[Len(journal.events) - 1]
           = DeleteEvent("START", PropsOf("id", dispatched.events[1].data))
      /\ Truthy(SliceAfter(Len(journal.events) - 2)))
     => /\ state.order = SliceAfter(Len(journal.events) - 2).order
        /\ EventIds \cap DOMAIN state.data = {}

\* a resource the slice held and listed has been deleted with success
C22_Witness ==
  /\ Reduced("DELETE", "SUCCESS")
  /\ journal.events = <<DeleteEvent("START", <<"1">>),
                        DeleteEvent("SUCCESS", <<"1">>)>>
  /\ Truthy(journal.origin)
  /\ "1" \in DOMAIN journal.origin.data
  /\ "1" \notin DOMAIN state.data
  /\ state.order = <<"1", "2">>

\* the last four events of the journal, and the slice they were dispatched to
LastFour ==
  SubSeq(journal.events, Len(journal.events) - 3, Len(journal.events))

BeforeLastFour == SliceAfter(Len(journal.events) - 4)

\* the events among the last four whose data names id alone
EventsOf(id) ==
  LET Names(e) == /\ "data" \in DOMAIN e
                  /\ Len(e.data) = 1
                  /\ Key(Prop(e.data[1], "id")) = id
  IN SelectSeq(LastFour, Names)

\* events are the START and the terminal event of one PATCH or DELETE
IsMutation(events) ==
  /\ Len(events) = 2
  /\ \E op \in {"PATCH", "DELETE"} :
       /\ events[1].type = ActionType(Namespace, "/", TRUE, op, "START")
       /\ events[2].type \in {ActionType(Namespace, "/", TRUE, op, "SUCCESS"),
                               ActionType(Namespace, "/", TRUE, op, "FAIL")}

\* the last four events are those of two mutations, of "1" and of "2"
Interleaved ==
  /\ Len(journal.events) >= 4
  /\ IsMutation(EventsOf("1"))
  /\ IsMutation(EventsOf("2"))

\* C23: independence across ids.  When the events of two optimistic
\* mutations (PATCH or DELETE, ending in SUCCESS or FAIL) of distinct ids
\* have been reduced in any interleaving that keeps each START before its
\* terminal event, data, prePatchResources and preDeleteResources are what
\* they are after the events of the one followed by the events of the other.
C23_Independence ==
  Interleaved
  => LET serial == dispatchAll(BeforeLastFour, EventsOf("1") \o EventsOf("2"))
     IN /\ state.data = serial.data
        /\ state.prePatchResources = serial.prePatchResources
        /\ state.preDeleteResources = serial.preDeleteResources

\* a PATCH that failed and a DELETE that succeeded, each started before the
\* other ended, over a slice that held both resources
C23_Witness ==
  /\ Interleaved
  /\ LastFour = <<PatchEvent("START", <<"1">>), DeleteEvent("START", <<"2">>),
                  PatchEvent("FAIL", <<"1">>), DeleteEvent("SUCCESS", <<"2">>)>>
  /\ Truthy(BeforeLastFour)
  /\ DOMAIN BeforeLastFour.data = {"1", "2"}
  /\ DOMAIN state.data = {"1"}

\* C24: START precedes terminal.  Every request of every operation has
\* dispatched START, once and first, in the turn of the thunk's call, before
\* its transport settles: the turn a settling transport starts belongs to a
\* request whose events so far are the START, and dispatches only SUCCESS and
\* FAIL events.
C24_StartFirst ==
  /\ \A j \in DOMAIN reqs :
       /\ reqs[j].phases # << >>
       /\ reqs[j].phases[1] = "START"
       /\ \A k \in 2..Len(reqs[j].phases) :
            reqs[j].phases[k] \in {"SUCCESS", "FAIL"}
       /\ Len(reqs[j].phases) > 1 => reqs[j].settled
  /\ \A op \in {"GET", "POST", "PATCH", "DELETE"} :
       /\ Started(op) => dispatched.phases = <<"START">>
       /\ Ended(op)
          => /\ dispatched.rec.phases = <<"START">>
             /\ \A k \in DOMAIN dispatched.phases :
                  dispatched.phases[k] \in {"SUCCESS", "FAIL"}

\* a PATCH whose transport resolved has dispatched FAIL and SUCCESS after
\* its START
C24_Witness ==
  /\ Ended("PATCH")
  /\ dispatched.how = "resolved"
  /\ dispatched.phases = <<"FAIL", "SUCCESS">>
  /\ reqs[dispatched.req].phases = <<"START", "FAIL", "SUCCESS">>

\* C25: keys follow idKey.  In every slice reached from the default initial
\* slice through the events of the thunks (the slice of the reducer with the
\* thunks' own namespace, which is passed every event unchanged, shows the
\* initial slice), every key of data maps to a resource whose id is the key.
C25_KeysFollowIdKey ==
  variants.sameNamespace = DefaultState
  => \A k \in DOMAIN state.data :
       /\ Truthy(state.data[k])
       /\ ~IsUndefined(Prop(state.data[k], "id"))
       /\ Prop(state.data[k], "id") = k

\* the last step called the slice reducers with no prior state
Created == dispatched.how = "store" /\ ~Truthy(dispatched.before)

\* C26: initial state.  Called with no prior state the composed reducer
\* returns the zeroed defaults, overridden field by field by what the base
\* reducer returns for no state (with the identity as base reducer: by
\* nothing), and does not apply the reducer registered for the action's type:
\* a PESS_POST_START leaves numPosting at its initial value.
C26_InitialState ==
  Created
  => /\ state = [data |-> EmptyObj, order |-> << >>,
                 numGetsInProgress |-> 0, numPosting |-> 0,
                 getSucceeded |-> FALSE, getFailed |-> FALSE,
                 preDeleteResources |-> EmptyObj,
                 prePatchResources |-> EmptyObj]
     /\ variants.withBase
          = [data |-> EmptyObj, order |-> << >>,
             numGetsInProgress |-> 0,
             numPosting |-> UserInitialState.numPosting,
             getSucceeded |-> FALSE, getFailed |-> FALSE,
             preDeleteResources |-> EmptyObj,
             prePatchResources |-> EmptyObj,
             seen |-> IF dispatched.events[1] = PostEvent("START")
                      THEN UserInitialState.numPosting
                      ELSE UserInitialState.seen]

\* the first action a slice without prior state is reduced with is a
\* PESS_POST_START
C26_Witness ==
  /\ Created
  /\ dispatched.events = <<PostEvent("START")>>
  /\ state.numPosting = 0
  /\ variants.withBase.numPosting = 3

\* C27: composed dispatch.  Given a prior slice the composed reducer applies
\* the reducer registered for the action's type and then the base reducer to
\* what it returned: after a PESS_POST_START numPosting is one higher and the
\* caller's base reducer has noted the raised numPosting; every field the
\* base reducer does not write is as with the identity as base reducer.  For
\* an action type without a registered reducer and the identity as base
\* reducer the slice returned equals the slice given.
C27_ComposedDispatch ==
  /\ Reduced("OTHER", "NONE") => state = dispatched.before
  /\ Reduced("POST", "START")
     => /\ state.numPosting = dispatched.before.numPosting + 1
        /\ variants.withBase.seen = variants.withBase.numPosting
        /\ variants.withBase.numPosting
             = state.numPosting
                 + (IF Truthy(journal.origin) THEN 0
                    ELSE UserInitialState.numPosting)
  /\ (dispatched.how = "store" /\ Truthy(dispatched.before))
     => \A k \in DOMAIN state \ {"numPosting"} : variants.withBase[k] = state[k]

\* a second PESS_POST_START has been reduced by both reducers
C27_Witness ==
  /\ Reduced("POST", "START")
  /\ dispatched.before.numPosting = 1
  /\ state.numPosting = 2
  /\ variants.withBase.seen = variants.withBase.numPosting

\* m and n have the same entry, or both none, under id
SameEntry(m, n, id) ==
  /\ (id \in DOMAIN m) = (id \in DOMAIN n)
  /\ id \in DOMAIN m => m[id] = n[id]

\* C28: PATCH start frame.  OPT_PATCH_START changes data[id] and
\* prePatchResources[id] only for the ids of its patches that are keys of
\* data (there it records the resource as it was); for a patch whose id is
\* no key of data it records no snapshot and adds nothing to data; order,
\* the counters, the flags and preDeleteResources are as before.
C28_PatchStartFrame ==
  Reduced("PATCH", "START")
  => LET before == dispatched.before
         hit == EventIds \cap DOMAIN before.data
     IN /\ DOMAIN state.data = DOMAIN before.data
        /\ DOMAIN state.prePatchResources
             = DOMAIN before.prePatchResources \cup hit
        /\ \A id \in Ids \ hit :
             /\ SameEntry(state.data, before.data, id)
             /\ SameEntry(state.prePatchResources, before.prePatchResources, id)
        /\ \A id \in hit : state.prePatchResources[id] = before.data[id]
        /\ state.order = before.order
        /\ state.numGetsInProgress = before.numGetsInProgress
        /\ state.numPosting = before.numPosting
        /\ state.getSucceeded = before.getSucceeded
        /\ state.getFailed = before.getFailed
        /\ state.preDeleteResources = before.preDeleteResources

\* a PATCH has started for a resource data does not hold, beside one it holds
C28_Witness ==
  /\ Reduced("PATCH", "START")
  /\ EventIds = {"1"}
  /\ DOMAIN dispatched.before.data = {"2"}
  /\ state = dispatched.before

\* C29: PATCH fail without snapshot.  An OPT_PATCH_FAIL for an id that is a
\* key of data and has no entry in prePatchResources is reduced without an
\* error and leaves the key in data, with the value undefined; the entries
\* of the other ids are as before.
C29_PatchFailNoSnapshot ==
  Reduced("PATCH", "FAIL")
  => LET before == dispatched.before
     IN /\ \A id \in EventIds :
             (id \in DOMAIN before.data
                /\ id \notin DOMAIN before.prePatchResources)
             => /\ id \in DOMAIN state.data
                /\ state.data[id] = Undefined
        /\ \A id \in Ids \ EventIds :
             /\ SameEntry(state.data, before.data, id)
             /\ SameEntry(state.prePatchResources, before.prePatchResources, id)

\* the FAIL of a PATCH that never started has been reduced for a resource
\* the slice held
C29_Witness ==
  /\ Reduced("PATCH", "FAIL")
  /\ journal.events = <<PatchEvent("FAIL", <<"1">>)>>
  /\ DOMAIN dispatched.before.data = {"1", "2"}
  /\ dispatched.before.data["1"] = ServerResource("1")
  /\ state.data["1"] = Undefined
  /\ state.data["2"] = ServerResource("2")

\* C30: POST fail frame.  PESS_POST_FAIL lowers numPosting by one and
\* PESS_POST_START raises it by one; every other field of the slice (data,
\* order, the snapshots, the GET counter and the flags) is as before.
C30_PostFrame ==
  /\ Reduced("POST", "FAIL")
     => state = [dispatched.before EXCEPT !.numPosting = @ - 1]
  /\ Reduced("POST", "START")
     => state = [dispatched.before EXCEPT !.numPosting = @ + 1]

\* a POST has failed over a slice with resources, an order, a snapshot and
\* the flag of a failed GET
C30_Witness ==
  /\ Reduced("POST", "FAIL")
  /\ dispatched.before.numPosting = 0
  /\ state.numPosting = -1
  /\ state.getFailed
  /\ state.numGetsInProgress = -1
  /\ state.order = <<"1", "2">>
  /\ DOMAIN state.data = {"1", "2"}
  /\ DOMAIN state.prePatchResources = {"1"}

\* the phases of the events request i has dispatched
PhasesOf(i) == IF i \in DOMAIN reqs THEN {reqs[i].phases[k] : k \in DOMAIN reqs[i].phases} ELSE {}

\* C31: every started request terminates.  When every transport call
\* eventually resolves or rejects, every request that has dispatched START
\* eventually dispatches a terminal event (SUCCESS or FAIL), whatever the
\* response translator answers.
C31_StartedTerminates ==
  \A i \in 1..MaxCalls :
    [](("START" \in PhasesOf(i)) => <>(PhasesOf(i) \cap {"SUCCESS", "FAIL"} # {}))

\* C33: no undefined resources.  The thunks dispatch every terminal event
\* after its own START and the caller keeps at most one PATCH or DELETE in
\* flight for an id; however the requests of the four operations interleave,
\* no key of data maps to undefined.
C33_NoUndefinedResources ==
  \A k \in DOMAIN state.data : state.data[k] # Undefined

\* C34: DELETE fail without snapshot.  An OPT_DELETE_FAIL none of whose ids
\* has an entry in preDeleteResources leaves data as it was (no id is added
\* and none is set to undefined); every resource preDeleteResources records
\* for another id is recorded as before, and no entry is added.
C34_DeleteFailNoSnapshot ==
  (Reduced("DELETE", "FAIL")
     /\ EventIds \cap DOMAIN dispatched.before.preDeleteResources = {})
  => LET before == dispatched.before
     IN /\ state.data = before.data
        /\ DOMAIN state.preDeleteResources \subseteq DOMAIN before.preDeleteResources
        /\ \A id \in DOMAIN before.preDeleteResources :
             Truthy(before.preDeleteResources[id])
             => /\ id \in DOMAIN state.preDeleteResources
                /\ state.preDeleteResources[id] = before.preDeleteResources[id]

\* the FAIL of a delete has been reduced for an id that neither data nor
\* preDeleteResources held, while the delete of another id was in flight
C34_Witness ==
  /\ Reduced("DELETE", "FAIL")
  /\ EventIds = {"2"}
  /\ "2" \notin DOMAIN dispatched.before.data
  /\ DOMAIN dispatched.before.preDeleteResources = {"1"}
  /\ DOMAIN state.preDeleteResources = {"1"}
  /\ state.preDeleteResources["1"] = ServerResource("1")
  /\ "2" \notin DOMAIN state.data

\* the last three events are the START of a delete, the same START again and
\* the FAIL of the delete
DuplicateStartThenFail ==
  LET n == Len(journal.events)
      ids == PropsOf("id", dispatched.events[1].data)
  IN /\ Reduced("DELETE", "FAIL")
     /\ n >= 3
     /\ journal.events[n - 1] = DeleteEvent("START", ids)
     /\ journal.events[n - 2] = DeleteEvent("START", ids)
     /\ Truthy(SliceAfter(n - 3))

\* C35: duplicate DELETE start.  An OPT_DELETE_START for ids whose delete is
\* in flight (absent from data, snapshot recorded) returns a slice equal to
\* the one it was given, the snapshot included; after START, START and FAIL
\* of a delete, data holds under each id the resource it held before the
\* first START.
C35_DuplicateDeleteStart ==
  /\ (/\ Reduced("DELETE", "START")
      /\ EventIds \cap DOMAIN dispatched.before.data = {}
      /\ EventIds \subseteq DOMAIN dispatched.before.preDeleteResources)
     => state = dispatched.before
  /\ DuplicateStartThenFail
     => LET original == SliceAfter(Len(journal.events) - 3)
        IN \A id \in EventIds :
             (id \in DOMAIN original.data /\ Truthy(original.data[id]))
             => /\ id \in DOMAIN state.data
                /\ state.data[id] = original.data[id]
                /\ id \notin DOMAIN state.preDeleteResources

\* a resource the slice held has been restored by the FAIL of a delete whose
\* START was reduced twice
C35_Witness ==
  /\ DuplicateStartThenFail
  /\ EventIds = {"1"}
  /\ Len(journal.events) = 3
  /\ journal.origin.data["1"] = ServerResource("1")
  /\ "1" \notin DOMAIN dispatched.before.data
  /\ state.data["1"] = ServerResource("1")
  /\ state.preDeleteResources = EmptyObj

\* the fields of the slice other than data and the two snapshot maps
Bookkeeping(st) ==
  [order |-> st.order, numGetsInProgress |-> st.numGetsInProgress,
   numPosting |-> st.numPosting, getFailed |-> st.getFailed,
   getSucceeded |-> st.getSucceeded]

\* snapshots after are snapshots before without the entries of ids
SnapshotsForgotten(after, before, ids) ==
  \A id \in Ids \cup DOMAIN before \cup DOMAIN after :
    IF id \in ids THEN id \notin DOMAIN after ELSE SameEntry(after, before, id)

\* C39: PATCH and DELETE terminal frame.  OPT_PATCH_SUCCESS leaves data as it
\* was and removes from prePatchResources the entries of the ids its data
\* names and no other; OPT_DELETE_SUCCESS does the same with
\* preDeleteResources; the other snapshot map, order, the counters and the
\* GET flags are as before and the slice has the same fields.
C39_SuccessFrame ==
  /\ Reduced("PATCH", "SUCCESS")
     => /\ state.data = dispatched.before.data
        /\ SnapshotsForgotten(state.prePatchResources,
                              dispatched.before.prePatchResources, EventIds)
        /\ state.preDeleteResources = dispatched.before.preDeleteResources
        /\ Bookkeeping(state) = Bookkeeping(dispatched.before)
        /\ DOMAIN state = DOMAIN dispatched.before
  /\ Reduced("DELETE", "SUCCESS")
     => /\ state.data = dispatched.before.data
        /\ SnapshotsForgotten(state.preDeleteResources,
                              dispatched.before.preDeleteResources, EventIds)
        /\ state.prePatchResources = dispatched.before.prePatchResources
        /\ Bookkeeping(state) = Bookkeeping(dispatched.before)
        /\ DOMAIN state = DOMAIN dispatched.before

\* the SUCCESS of one of two patches in flight has been reduced: its snapshot
\* is gone, the other patch's snapshot and both patched resources remain
C39_Witness ==
  /\ Reduced("PATCH", "SUCCESS")
  /\ EventIds = {"1"}
  /\ DOMAIN dispatched.before.prePatchResources = {"1", "2"}
  /\ DOMAIN state.prePatchResources = {"2"}
  /\ state.prePatchResources["2"] = ServerResource("2")
  /\ DOMAIN state.data = {"1", "2"}
  /\ state.data["1"].qty = PatchItem("1").qty

\* C37: distinct placeholder ids.  With the default
\* postRequestDataToDataArray, any two items that are given a placeholder id
\* by POST requests not yet answered, in the same request or in different
\* requests, have different placeholder ids.
C37_DistinctPlaceholders ==
  \A i, j \in DOMAIN reqs :
    (/\ reqs[i].op = "POST" /\ reqs[j].op = "POST"
     /\ ~reqs[i].settled /\ ~reqs[j].settled
     /\ reqs[i].opts.postRequestDataToDataArray
          = defaultOptionsPost.postRequestDataToDataArray
     /\ reqs[j].opts.postRequestDataToDataArray
          = defaultOptionsPost.postRequestDataToDataArray)
    => \A a \in DOMAIN reqs[i].data, b \in DOMAIN reqs[j].data :
         (i # j \/ a # b) => reqs[i].data[a].id # reqs[j].data[b].id

\* the GET requests made so far
Gets == {j \in DOMAIN reqs : reqs[j].op = "GET"}

\* two GET calls have been made, each has dispatched START and then SUCCESS
\* alone, the last turn reduced the second SUCCESS, and the first SUCCESS was
\* reduced after both STARTs (no START has cleared getSucceeded since): the
\* two calls overlapped
OverlappingGetsSucceeded ==
  /\ Ended("GET")
  /\ dispatched.phases = <<"SUCCESS">>
  /\ Cardinality(Gets) = 2
  /\ \A j \in Gets : reqs[j].phases = <<"START", "SUCCESS">>
  /\ dispatched.before.getSucceeded

\* C38: overlapping GETs.  When two GET calls overlap and both succeed, after
\* the second SUCCESS data and order are those of the payload of the SUCCESS
\* reduced last, whichever call started last, and numGetsInProgress is what
\* it was before the two calls (the counter of the store's initial slice, no
\* other GET having been made).
C38_OverlappingGets ==
  OverlappingGetsSucceeded
  => LET payload == dispatched.events[1].data
     IN /\ state.data = FromPairsBy("id", payload)
        /\ state.order = PropsOf("id", payload)
        /\ state.numGetsInProgress = DefaultState.numGetsInProgress

\* of two overlapping GETs the one that started first has succeeded last,
\* with a payload other than the one the slice held from the other GET
C38_Witness ==
  /\ OverlappingGetsSucceeded
  /\ \A j \in Gets : dispatched.req <= j
  /\ dispatched.before.order = <<"1">>
  /\ state.order = <<"2", "1">>
  /\ DOMAIN state.data = {"1", "2"}
  /\ state.numGetsInProgress = 0

(***************************************************************************)
(* Properties of calls that make several requests.                         *)
(***************************************************************************)
\* the other requests of the call that made request i
Siblings(i) == {j \in DOMAIN reqs : reqs[j].call = reqs[i].call} \ {i}

Terminal == {"SUCCESS", "FAIL"}

\* C32: per-request containment.  In a call that made several requests, the
\* turn the rejection of one request's transport starts dispatches one event,
\* the FAIL of that request (its data and the error), and leaves every other
\* request of the call as it was:
\* pending if it was pending, with the events it had.  A request that settles
\* after a request of its call has failed dispatches its own terminal events
\* (its translator having classified an item, or its transport having
\* rejected).  No such turn removes a request or ends the call: the number of
\* requests is as before.
C32_Containment ==
  [][\A i \in DOMAIN reqs :
       (/\ Pending(i)
        /\ Siblings(i) # {}
        /\ dispatched'.req = i
        /\ dispatched'.how \in {"resolved", "rejected"})
       => /\ Len(reqs') = Len(reqs)
          /\ \A j \in Siblings(i) :
               /\ reqs'[j].phases = reqs[j].phases
               /\ reqs'[j].settled = reqs[j].settled
          /\ dispatched'.how = "rejected"
             => /\ dispatched'.phases = <<"FAIL">>
                /\ dispatched'.events[1].data = reqs[i].data
                /\ dispatched'.events[1].error = NetworkError
                /\ reqs'[i].phases = <<"START", "FAIL">>
          /\ (/\ \E j \in Siblings(i) : "FAIL" \in {reqs[j].phases[n] : n \in DOMAIN reqs[j].phases}
              /\ \/ dispatched'.how = "rejected"
                 \/ reqs[i].op = "DELETE"
                 \/ dispatched'.answer.successData \o dispatched'.answer.failureData # << >>)
             => /\ dispatched'.phases # << >>
                /\ \A n \in DOMAIN dispatched'.phases : dispatched'.phases[n] \in Terminal
                /\ reqs'[i].phases = <<"START">> \o dispatched'.phases
  ]_vars

\* of a call that made two requests the first has failed by rejection and the
\* second, settling after it, has succeeded
C32_Witness ==
  /\ dispatched.how = "resolved"
  /\ dispatched.req = 2
  /\ dispatched.rec.call = 1
  /\ dispatched.rec.op = "DELETE"
  /\ dispatched.phases = <<"SUCCESS">>
  /\ reqs[1].call = 1
  /\ reqs[1].phases = <<"START", "FAIL">>
  /\ reqs[2].phases = <<"START", "SUCCESS">>

\* C36: all STARTs first.  The turn of a call with k request payloads
\* dispatches k events, the STARTs of the payloads in payload order, and no
\* other; every request the call made has then dispatched its START and
\* nothing else.  SUCCESS and FAIL events are dispatched only in turns that
\* settling transports start, each for a request that has dispatched START,
\* in whatever order the transports settle.
C36_AllStartsFirst ==
  /\ (dispatched.how = "call" /\ dispatched.req # 0)
     => LET k == Len(dispatched.payloads)
            first == dispatched.req
        IN /\ dispatched.phases = [n \in 1..k |-> "START"]
           /\ \A n \in 1..k :
                /\ dispatched.events[n].requestData = dispatched.payloads[n]
                /\ first + n - 1 \in DOMAIN reqs
                /\ reqs[first + n - 1].call = first
                /\ reqs[first + n - 1].requestData = dispatched.payloads[n]
                /\ reqs[first + n - 1].phases = <<"START">>
  /\ dispatched.how \in {"resolved", "rejected"}
     => /\ dispatched.rec.phases = <<"START">>
        /\ \A n \in DOMAIN dispatched.phases : dispatched.phases[n] \in Terminal
        /\ \A j \in DOMAIN reqs :
             reqs[j].call = dispatched.rec.call
             => reqs[j].phases # << >> /\ reqs[j].phases[1] = "START"

\* of a call that made two requests the second has dispatched its terminal
\* event while the first, started before it, awaits its transport
C36_Witness ==
  /\ dispatched.how \in {"resolved", "rejected"}
  /\ dispatched.req = 2
  /\ dispatched.rec.call = 1
  /\ dispatched.phases # << >>
  /\ reqs[1].call = 1
  /\ reqs[1].phases = <<"START">>
  /\ ~reqs[1].settled

====
